---- MODULE Spec2Model ----
(***************************************************************************)
(* mutagent: the runtime module registry (ModuleManager over sys.modules   *)
(* and linecache), its patch/versioning and persistence operations, and    *)
(* the class-identity registry of MutagentMeta.                            *)
(*                                                                         *)
(* A dotted module path is held as the sequence of its segments            *)
(* (module_path.split(".")); Dotted joins the segments again, so that the  *)
(* virtual file name and the real file path are the strings the code       *)
(* builds.  A source text is held as the sequence of its statements.       *)
(***************************************************************************)
EXTENDS Integers, Sequences, FiniteSets, TLC

--------------------------------------------------------------------------
(* Bounds of the model *)

\* Manager operations (patch_module, save_module, cleanup) in one run.
MaxOps == 3

--------------------------------------------------------------------------
(* Generic helpers *)

\* dict.get(k, default)
Get(f, k, default) == IF k \in DOMAIN f THEN f[k] ELSE default

\* f[k] = v on a dict
Put(f, k, v) == [x \in DOMAIN f \cup {k} |-> IF x = k THEN v ELSE f[x]]

\* dict.pop(k, None), the result dropped
Pop(f, k) == [x \in DOMAIN f \ {k} |-> f[x]]

\* the empty dict
EmptyDict == [x \in {} |-> 0]

RECURSIVE Join(_, _)
\* sep.join(parts)
Join(parts, sep) ==
  IF Len(parts) = 0 THEN ""
  ELSE IF Len(parts) = 1 THEN parts[1]
  ELSE parts[1] \o sep \o Join(Tail(parts), sep)

\* the dotted module path as the caller writes it
Dotted(parts) == Join(parts, ".")

\* module_path.rpartition(".")[0]
ParentOf(parts) == SubSeq(parts, 1, Len(parts) - 1)

\* parts[-1]
LastOf(parts) == parts[Len(parts)]

--------------------------------------------------------------------------
(* Inputs: module paths, root directories, source texts *)

ModulePaths == {<<"a">>, <<"a", "b">>, <<"c">>}

Directories == {<<"out">>, <<"alt">>}

\* statements of a source text, each with the line end that follows it (eol)
Assign(n, v)    == [op |-> "assign",  name |-> n, arg |-> v, eol |-> TRUE]
Def(n, nest)    == [op |-> "def",     name |-> n, arg |-> nest, eol |-> TRUE]
PyClass(n, ms)  == [op |-> "pyclass", name |-> n, arg |-> ms, eol |-> TRUE]
\* class n(mutagent.Object) declaring the stub methods ms, the attributes attrs
\* and the properties props; setattr/delattr of the names in readonly raises
\* on the registered class object
MutClassWith(n, ms, attrs, props, readonly) ==
  [op |-> "class", name |-> n, arg |-> ms, eol |-> TRUE,
   attrs |-> attrs, props |-> props, readonly |-> readonly]
MutClass(n, ms) == MutClassWith(n, ms, {}, {}, {})
\* class n(bases) declaring the stub methods ms; the bases derive from
\* mutagent.Object
MutClassBased(n, ms, bases) ==
  [op |-> "class", name |-> n, arg |-> ms, eol |-> TRUE,
   attrs |-> {}, props |-> {}, readonly |-> {}, bases |-> bases]
\* from module import cls; @mutagent.impl(cls.n, override=...) def n: return tag
Impl(module, cls, n, tag, override) ==
  [op |-> "impl", name |-> n, eol |-> TRUE,
   arg |-> [module |-> module, cls |-> cls, tag |-> tag, override |-> override]]
Raise           == [op |-> "raise",   name |-> "", arg |-> 0, eol |-> TRUE]
\* raise SystemExit(0): an exception that does not derive from Exception
RaiseExit       == [op |-> "raise",   name |-> "SystemExit", arg |-> 0, eol |-> TRUE]
SyntaxErr       == [op |-> "syntax",  name |-> "", arg |-> 0, eol |-> TRUE]

\* the last statement of a text that does not end with a line end
NoEol(st) == [st EXCEPT !.eol = FALSE]

\* x = 1; def f (two nested functions inside); class A: def m; class K(mutagent.Object): def run
SrcOne == << Assign("x", 1), Def("f", 2), PyClass("A", {"m"}), MutClass("K", {"run"}) >>
\* y = 2; class K(mutagent.Object): def run, def stop (no line end at the end)
SrcTwo == << Assign("y", 2), NoEol(MutClass("K", {"run", "stop"})) >>
\* y = 2; raise ...; x = 1
SrcRaise == << Assign("y", 2), Raise, Assign("x", 1) >>
\* x = 1; a line that does not parse
SrcSyntax == << Assign("x", 1), SyntaxErr >>

Sources == {SrcOne, SrcTwo, SrcRaise, SrcSyntax}

--------------------------------------------------------------------------
(* Values held by namespaces and classes *)

IntVal(n)     == [kind |-> "int", v |-> n]
StrVal(s)     == [kind |-> "str", v |-> s]
NoneVal       == [kind |-> "none"]
FuncVal(code) == [kind |-> "func", __code__ |-> code]
PyClassVal(d) == [kind |-> "pyclass", dict |-> d]
ClassRef(id)  == [kind |-> "class", id |-> id]
ModuleRef(o)  == [kind |-> "module", oid |-> o]

RECURSIVE MakeCode(_, _)
\* the code object compile() builds for a def with `nest` levels of nested defs
MakeCode(filename, nest) ==
  [co_filename |-> filename,
   co_consts   |-> IF nest = 0 THEN <<>> ELSE << MakeCode(filename, nest - 1) >>]

RECURSIVE _replace_code_filename(_, _, _)
_replace_code_filename(code, old, new) ==
  [co_filename |-> new,
   co_consts   |-> [i \in DOMAIN code.co_consts |->
                      _replace_code_filename(code.co_consts[i], old, new)]]

\* the identifier is built from the last segment of the path
VirtualFilename_leaf(module_path) == "mutagent://" \o LastOf(module_path)

VirtualFilename(module_path) == "mutagent://" \o Dotted(module_path)

--------------------------------------------------------------------------
(* The capability runtime (forwardpy) as base.py and module_manager.py use it *)

\* what forwardpy keeps per class: fp is the record of its three registries
\*   _method_registry:    class id -> (method name -> attached implementation)
\*   _attribute_registry: class id -> declared attribute names
\*   _property_registry:  class id -> (property name -> property object)

\* dict.update: the entries of b over those of a
Update(a, b) ==
  [k \in DOMAIN a \cup DOMAIN b |-> IF k \in DOMAIN b THEN b[k] ELSE a[k]]

\* the stub ObjectMeta puts in place of a method declared with a `...` body;
\* calling it raises NotImplementedError
StubVal(owner, name) ==
  [kind |-> "stub", name |-> name, __forwardpy_class__ |-> owner]

\* the function a module defined under @impl, as the class and the method
\* registry hold it: tag tells the versions of the function apart
ImplVal(tag, module) == [kind |-> "impl", tag |-> tag, __module__ |-> module]

\* a ForwardpyProperty
PropVal(owner, name) == [kind |-> "property", name |-> name, owner_cls |-> owner]

\* the __annotations__ of a class body
AnnotationsVal(attrs) == [kind |-> "annotations", names |-> attrs]

\* the class attribute under which ObjectMeta keeps the declared method names
_DECLARED_METHODS == "__forwardpy_declared_methods__"

\* the set of declared method names as that class attribute holds it
DeclaredVal(names) == [kind |-> "declared", names |-> names]

\* the registries after ObjectMeta.__new__ has processed the body of the class
\* object id: an entry per registry for which the body declares something
ObjectMeta_new(fp, id, st) ==
  [_method_registry |->
     IF st.arg # {} THEN Put(fp._method_registry, id, EmptyDict)
     ELSE fp._method_registry,
   _attribute_registry |->
     IF st.attrs # {} THEN Put(fp._attribute_registry, id, st.attrs)
     ELSE fp._attribute_registry,
   _property_registry |->
     IF st.props # {}
     THEN Put(fp._property_registry, id, [p \in st.props |-> PropVal(id, p)])
     ELSE fp._property_registry]

\* impl(cls.method)(func) refuses a method that has an implementation, unless
\* override is given
ImplRefused(fp, id, method, override) ==
  /\ ~override
  /\ method \in DOMAIN Get(fp._method_registry, id, EmptyDict)

\* impl(cls.method)(func): the registries and the class objects afterwards
impl(fp, cls, id, method, func) ==
  [fp |-> [fp EXCEPT !._method_registry =
             Put(@, id, Put(Get(@, id, EmptyDict), method, func))],
   classes |-> [cls EXCEPT ![id].__dict__ = Put(@, method, func)]]

\* the methods of class id whose implementation module `module` contributed
ContributedBy(fp, id, module) ==
  {n \in DOMAIN fp._method_registry[id] :
     fp._method_registry[id][n].__module__ = module}

\* unregister_module_impls(module): every implementation the module
\* contributed leaves the method registry and the stub is back on the class
unregister_module_impls(fp, cls, module) ==
  [fp |-> [fp EXCEPT !._method_registry =
             [id \in DOMAIN @ |->
                [n \in DOMAIN @[id] \ ContributedBy(fp, id, module) |-> @[id][n]]]],
   classes |->
     [id \in DOMAIN cls |->
        IF id \in DOMAIN fp._method_registry
        THEN [cls[id] EXCEPT !.__dict__ =
                [a \in DOMAIN @ |->
                   IF a \in ContributedBy(fp, id, module) THEN StubVal(id, a)
                   ELSE @[a]]]
        ELSE cls[id]]]

\* obj.method(): the tag of the implementation that runs, or the error of the stub
Dispatch(cls, id, method) ==
  IF method \notin DOMAIN cls[id].__dict__ THEN "AttributeError"
  ELSE IF cls[id].__dict__[method].kind = "impl" THEN cls[id].__dict__[method].tag
  ELSE "NotImplementedError"

--------------------------------------------------------------------------
(* Class identity: MutagentMeta (base.py) *)

_SKIP == {"__dict__", "__weakref__", "__class__", "__mro__", "__subclasses__",
          "__bases__", "__name__", "__qualname__", "__module__"}

\* the class object id that super().__new__ (forwardpy's ObjectMeta, over
\* type.__new__) builds from the class statement st: its __dict__ holds
\* __module__, __doc__, the declared method names, a stub per declared method,
\* a property object per declared property, and __annotations__ when
\* attributes are declared
NewClassObject(id, module, qualname, st, filename) ==
  [__name__     |-> st.name,
   __qualname__ |-> qualname,
   __bases__    |-> IF "bases" \in DOMAIN st THEN st.bases ELSE << "mutagent.Object" >>,
   __dict__     |->
     [a \in st.arg \cup st.props \cup {"__module__", "__doc__", _DECLARED_METHODS}
              \cup (IF st.attrs # {} THEN {"__annotations__"} ELSE {}) |->
        IF a = "__module__" THEN StrVal(module)
        ELSE IF a = "__doc__" THEN NoneVal
        ELSE IF a = _DECLARED_METHODS THEN DeclaredVal(st.arg)
        ELSE IF a = "__annotations__" THEN AnnotationsVal(st.attrs)
        ELSE IF a \in st.props THEN PropVal(id, a)
        ELSE StubVal(id, a)]]

\* val after the set loop has fixed its reference to the owning class
Repointed(val, existing_id) ==
  IF val.kind = "stub" THEN [val EXCEPT !.__forwardpy_class__ = existing_id]
  ELSE IF val.kind = "property" THEN [val EXCEPT !.owner_cls = existing_id]
  ELSE val

\* the first delattr or setattr that raises ends the update
_update_class_inplace_abort(existing, new_cls, existing_id, readonly) ==
  LET old_attrs == DOMAIN existing.__dict__
      new_attrs == DOMAIN new_cls.__dict__
      deleted   == (old_attrs \ new_attrs) \ _SKIP
      copied    == new_attrs \ _SKIP
  IN  IF (deleted \cup copied) \cap readonly # {} THEN existing
      ELSE [existing EXCEPT !.__dict__ =
              [a \in (old_attrs \ deleted) \cup copied |->
                 IF a \in copied THEN Repointed(new_cls.__dict__[a], existing_id)
                 ELSE existing.__dict__[a]]]

\* the set loop leaves a name the registered object already has as it is
_update_class_inplace_addOnly(existing, new_cls, existing_id, readonly) ==
  LET old_attrs == DOMAIN existing.__dict__
      new_attrs == DOMAIN new_cls.__dict__
      deleted   == ((old_attrs \ new_attrs) \ _SKIP) \ readonly
      copied    == ((new_attrs \ _SKIP) \ readonly) \ old_attrs
  IN  [existing EXCEPT !.__dict__ =
         [a \in (old_attrs \ deleted) \cup copied |->
            IF a \in copied THEN Repointed(new_cls.__dict__[a], existing_id)
            ELSE existing.__dict__[a]]]

\* the bases of the new definition are transplanted too
_update_class_inplace_rebase(existing, new_cls, existing_id, readonly) ==
  LET old_attrs == DOMAIN existing.__dict__
      new_attrs == DOMAIN new_cls.__dict__
      deleted   == ((old_attrs \ new_attrs) \ _SKIP) \ readonly
      copied    == (new_attrs \ _SKIP) \ readonly
  IN  [existing EXCEPT !.__bases__ = new_cls.__bases__,
                       !.__dict__ =
         [a \in (old_attrs \ deleted) \cup copied |->
            IF a \in copied THEN Repointed(new_cls.__dict__[a], existing_id)
            ELSE existing.__dict__[a]]]

\* existing (the object existing_id), with the attributes of new_cls
\* transplanted onto it; delattr and setattr raise for the names in readonly,
\* and the loops pass over them
_update_class_inplace(existing, new_cls, existing_id, readonly) ==
  LET old_attrs == DOMAIN existing.__dict__
      new_attrs == DOMAIN new_cls.__dict__
      deleted   == ((old_attrs \ new_attrs) \ _SKIP) \ readonly
      copied    == (new_attrs \ _SKIP) \ readonly
  IN  [existing EXCEPT !.__dict__ =
         [a \in (old_attrs \ deleted) \cup copied |->
            IF a \in copied THEN Repointed(new_cls.__dict__[a], existing_id)
            ELSE existing.__dict__[a]]]

\* the registered implementations are not put back on the class
_migrate_forwardpy_registries_noReapply(fp, existing, existing_id, new_id) ==
  [fp |-> fp, obj |-> existing]

\* the entries of new_id stay where ObjectMeta put them
_migrate_forwardpy_registries_noMove(fp, existing, existing_id, new_id) ==
  [fp  |-> fp,
   obj |-> [existing EXCEPT !.__dict__ =
              Update(@, Get(fp._method_registry, existing_id, EmptyDict))]]

\* _migrate_forwardpy_registries(existing, new_cls): the registries, and the
\* object existing_id after the registered implementations are set on it again
_migrate_forwardpy_registries(fp, existing, existing_id, new_id) ==
  LET mr  == fp._method_registry
      ar  == fp._attribute_registry
      pr  == fp._property_registry
      mr1 == IF new_id \in DOMAIN mr
             THEN Put(Pop(mr, new_id), existing_id,
                      Update(Get(Pop(mr, new_id), existing_id, EmptyDict), mr[new_id]))
             ELSE mr
      ar1 == IF new_id \in DOMAIN ar
             THEN Put(Pop(ar, new_id), existing_id, ar[new_id])
             ELSE ar
      pr1 == IF new_id \in DOMAIN pr
             THEN Put(Pop(pr, new_id), existing_id,
                      [p \in DOMAIN pr[new_id] |->
                         [pr[new_id][p] EXCEPT !.owner_cls = existing_id]])
             ELSE pr
  IN  [fp  |-> [_method_registry |-> mr1, _attribute_registry |-> ar1,
                _property_registry |-> pr1],
       obj |-> [existing EXCEPT !.__dict__ =
                  Update(@, Get(mr1, existing_id, EmptyDict))]]

\* id() of a newly allocated class object
FreshClassId(cls) == CHOOSE n \in 1..(Cardinality(DOMAIN cls) + 1) : n \notin DOMAIN cls

\* MutagentMeta.__new__ without the in-place update: every declaration installs
\* and returns the object it has just built
MutagentMeta_new_rebind(cls, reg, fp, module, qualname, st, filename) ==
  LET id == FreshClassId(cls)
  IN  [classes  |-> Put(cls, id, NewClassObject(id, module, qualname, st, filename)),
       registry |-> Put(reg, << module, qualname >>, id),
       fp       |-> ObjectMeta_new(fp, id, st),
       ret      |-> id]

\* the registry is keyed by the qualified name alone
MutagentMeta_new_byName(cls, reg, fp, module, qualname, st, filename) ==
  LET same     == {k \in DOMAIN reg : k[2] = qualname}
      existing == IF same = {} THEN 0 ELSE reg[CHOOSE k \in same : TRUE]
      new_id   == FreshClassId(cls)
      new_cls  == NewClassObject(new_id, module, qualname, st, filename)
      fp0      == ObjectMeta_new(fp, new_id, st)
  IN  IF existing # 0
      THEN LET mig == _migrate_forwardpy_registries(
                        fp0, _update_class_inplace(cls[existing], new_cls, existing,
                                                   st.readonly),
                        existing, new_id)
           IN  [classes  |-> [cls EXCEPT ![existing] = mig.obj],
                registry |-> reg, fp |-> mig.fp, ret |-> existing]
      ELSE [classes  |-> Put(cls, new_id, new_cls),
            registry |-> Put(reg, << module, qualname >>, new_id),
            fp |-> fp0, ret |-> new_id]

\* MutagentMeta.__new__ for the class statement st: cls is the heap of class
\* objects, reg is MutagentMeta._class_registry, fp are forwardpy's registries;
\* ret is the object the declaration returns. new_id is the object
\* super().__new__ builds, which is discarded when the key is registered.
MutagentMeta_new(cls, reg, fp, module, qualname, st, filename) ==
  LET key      == << module, qualname >>
      existing == Get(reg, key, 0)
      new_id   == FreshClassId(cls)
      new_cls  == NewClassObject(new_id, module, qualname, st, filename)
      fp0      == ObjectMeta_new(fp, new_id, st)
  IN  IF existing # 0
      THEN LET mig == _migrate_forwardpy_registries(
                        fp0, _update_class_inplace(cls[existing], new_cls, existing,
                                                   st.readonly),
                        existing, new_id)
           IN  [classes  |-> [cls EXCEPT ![existing] = mig.obj],
                registry |-> reg,
                fp       |-> mig.fp,
                ret      |-> existing]
      ELSE [classes  |-> Put(cls, new_id, new_cls),
            registry |-> Put(reg, key, new_id),
            fp       |-> fp0,
            ret      |-> new_id]

--------------------------------------------------------------------------
(* compile() and exec() of a source text against a module namespace *)

\* compile(source, filename, "exec") returns normally
Compiles(source) == \A i \in DOMAIN source : source[i].op # "syntax"

\* the log of class declarations: per key, the object the first declaration
\* returned and the number of declarations so far
Declared(log, key, ret) ==
  IF key \in DOMAIN log
  THEN [log EXCEPT ![key].count = @ + 1]
  ELSE Put(log, key, [first |-> ret, count |-> 1])

\* the class an impl statement imports: looked up in the namespace being
\* filled when the statement names its own module, in sys.modules otherwise;
\* 0 when the import raises
ImportedClass(st, w, module_name) ==
  LET ns == IF st.arg.module = module_name THEN w.syms
            ELSE IF st.arg.module \in DOMAIN w.mods THEN w.mods[st.arg.module].syms
            ELSE EmptyDict
  IN  IF st.arg.cls \in DOMAIN ns /\ ns[st.arg.cls].kind = "class"
      THEN ns[st.arg.cls].id
      ELSE 0

RECURSIVE ExecFrom(_, _, _, _, _)
\* exec of statements i.. of source;
\* w = [syms, classes, registry, decls, fp, mods, ok, exc]
ExecFrom(source, i, w, module_name, filename) ==
  IF i > Len(source) THEN w
  ELSE
    LET st == source[i] IN
    IF st.op = "raise"
    THEN [w EXCEPT !.ok = FALSE, !.exc = IF st.name = "" THEN "Exception" ELSE st.name]
    ELSE IF st.op = "assign" THEN
      ExecFrom(source, i + 1,
               [w EXCEPT !.syms = Put(@, st.name, IntVal(st.arg))],
               module_name, filename)
    ELSE IF st.op = "def" THEN
      ExecFrom(source, i + 1,
               [w EXCEPT !.syms = Put(@, st.name, FuncVal(MakeCode(filename, st.arg)))],
               module_name, filename)
    ELSE IF st.op = "pyclass" THEN
      ExecFrom(source, i + 1,
               [w EXCEPT !.syms = Put(@, st.name,
                   PyClassVal([m \in st.arg |-> FuncVal(MakeCode(filename, 0))]))],
               module_name, filename)
    ELSE IF st.op = "impl" THEN
      \* from <module> import <cls>; @mutagent.impl(<cls>.<name>) def <name>
      LET id == ImportedClass(st, w, module_name) IN
      IF id = 0 THEN [w EXCEPT !.ok = FALSE]
      ELSE IF \/ st.name \notin DOMAIN w.classes[id].__dict__
              \/ ImplRefused(w.fp, id, st.name, st.arg.override)
      THEN [w EXCEPT !.ok = FALSE, !.syms = Put(@, st.arg.cls, ClassRef(id))]
      ELSE LET r == impl(w.fp, w.classes, id, st.name, ImplVal(st.arg.tag, module_name))
           IN  ExecFrom(source, i + 1,
                        [w EXCEPT !.syms = Put(Put(@, st.arg.cls, ClassRef(id)), st.name,
                                               FuncVal(MakeCode(filename, 0))),
                                  !.classes = r.classes,
                                  !.fp = r.fp],
                        module_name, filename)
    ELSE \* st.op = "class": a subclass of mutagent.Object
      LET r == MutagentMeta_new(w.classes, w.registry, w.fp, module_name, st.name,
                                st, filename)
      IN  ExecFrom(source, i + 1,
                   [w EXCEPT !.syms = Put(@, st.name, ClassRef(r.ret)),
                             !.classes = r.classes,
                             !.registry = r.registry,
                             !.fp = r.fp,
                             !.decls = Declared(@, << module_name, st.name >>, r.ret)],
                   module_name, filename)

\* a failed exec undoes the bindings it made
CompileAndExec_rollback(source, module, cls, reg, log, fp, mods, filename) ==
  LET w == ExecFrom(source, 1,
                    [syms |-> module.syms, classes |-> cls, registry |-> reg,
                     decls |-> log, fp |-> fp, mods |-> mods, ok |-> TRUE,
                     exc |-> "Exception"],
                    module.__name__, filename)
  IN  IF Compiles(source) /\ w.ok
      THEN [module   |-> [module EXCEPT !.syms = w.syms, !.__builtins__ = TRUE],
            classes  |-> w.classes, registry |-> w.registry, decls |-> w.decls,
            fp       |-> w.fp, err |-> ""]
      ELSE [module |-> module, classes |-> cls, registry |-> reg, decls |-> log,
            fp |-> fp,
            err |-> IF Compiles(source) THEN "Exception" ELSE "SyntaxError"]

\* code = compile(source, virtual_filename, "exec"); exec(code, module.__dict__)
\* mods is sys.modules while the code runs; err is "" when both return normally
CompileAndExec(source, module, cls, reg, log, fp, mods, filename) ==
  IF ~Compiles(source)
  THEN [module |-> module, classes |-> cls, registry |-> reg, decls |-> log,
        fp |-> fp, err |-> "SyntaxError"]
  ELSE LET w == ExecFrom(source, 1,
                         [syms |-> module.syms, classes |-> cls, registry |-> reg,
                          decls |-> log, fp |-> fp, mods |-> mods, ok |-> TRUE,
                     exc |-> "Exception"],
                         module.__name__, filename)
       IN  [module   |-> [module EXCEPT !.syms = w.syms, !.__builtins__ = TRUE],
            classes  |-> w.classes,
            registry |-> w.registry,
            decls    |-> w.decls,
            fp       |-> w.fp,
            err      |-> IF w.ok THEN "" ELSE w.exc]

----------
(* State *)

VARIABLES
  sys_modules,        \* sys.modules: dotted path -> module object
  linecache,          \* linecache.cache: file name -> entry
  files,              \* the file system: file path -> content
  dirs,               \* the file system: the directories that exist
  _history,           \* ModuleManager._history: dotted path -> sequence of PatchRecord
  _versions,          \* ModuleManager._versions: dotted path -> int
  _virtual_packages,  \* ModuleManager._virtual_packages
  _patched_modules,   \* ModuleManager._patched_modules
  _class_registry,    \* MutagentMeta._class_registry: (module, qualname) -> class id
  classes,            \* the class objects: id -> class object
  _method_registry,   \* forwardpy.core._method_registry
  _attribute_registry, \* forwardpy.core._attribute_registry
  _property_registry, \* forwardpy.core._property_registry
  instances,          \* instances of registered classes held by callers
  last,               \* the last manager call: operation, arguments, outcome
  calls,              \* per dotted path: patch_module calls since the last cleanup
  failed,             \* per dotted path: those of them that raised
  decls,              \* per class key: the first declaration's object, the declarations so far
  nops,               \* manager calls so far
  sys_modules0,       \* sys.modules as it was when the manager was built
  tool_result,        \* the outcome of the last EssentialTools call
  frame,              \* the patch_module call in progress: position and locals
  messages,           \* Agent.messages
  agent_pc,           \* where Agent.run stands
  response,           \* Agent.run: response, << >> for None
  results,            \* Agent.run: results
  cursor,             \* Agent.run: the index of call in response.message.tool_calls
  llm_calls,          \* the calls of Agent.step so far
  streamed,           \* the events the current step has yielded
  trace               \* what the current run did so far, in order

vars == << sys_modules, linecache, files, dirs, _history, _versions,
           _virtual_packages, _patched_modules, _class_registry, classes,
           _method_registry, _attribute_registry, _property_registry,
           instances, last, calls, failed, decls, nops, sys_modules0,
           tool_result, frame, messages, agent_pc, response, results, cursor,
           llm_calls, streamed, trace >>

\* the agent takes no step
AgentIdle ==
  UNCHANGED << messages, agent_pc, response, results, cursor, llm_calls, streamed,
               trace >>

\* the module manager, the class registry and the file system stay as they are
ManagerIdle ==
  UNCHANGED << sys_modules, linecache, files, dirs, _history, _versions,
               _virtual_packages, _patched_modules, _class_registry, classes,
               _method_registry, _attribute_registry, _property_registry,
               instances, last, calls, failed, decls, nops, sys_modules0,
               tool_result, frame >>

\* what the callers of the manager other than the one taking the step leave alone
OthersIdle == UNCHANGED << tool_result, frame >> /\ AgentIdle

\* forwardpy's registries as one record
Registries ==
  [_method_registry |-> _method_registry, _attribute_registry |-> _attribute_registry,
   _property_registry |-> _property_registry]

\* the registries stay as they are
UnchangedRegistries ==
  UNCHANGED << _method_registry, _attribute_registry, _property_registry >>

\* an attribute that is not set
Absent == "<absent>"

\* no patch_module call is in progress
NoFrame ==
  [pc |-> "idle", parts |-> << >>, source |-> << >>, version |-> 0,
   history0 |-> EmptyDict, parent0 |-> Absent]

\* no EssentialTools call was made yet
NoResult == [raised |-> "", value |-> << >>]

\* __loader__ of a module that has no _VirtualLoader
NoLoader == [_source |-> << >>, _filename |-> Absent]

\* the record carries the version the path had before the call
PatchRecord_previousVersion(module_path, source, version, virtual_filename) ==
  [module_path |-> module_path, source |-> source, version |-> version - 1,
   virtual_filename |-> virtual_filename]

\* PatchRecord (dataclass)
PatchRecord(module_path, source, version, virtual_filename) ==
  [module_path |-> module_path, source |-> source, version |-> version,
   virtual_filename |-> virtual_filename]

\* _VirtualLoader(source, filename)
_VirtualLoader(source, filename) == [_source |-> source, _filename |-> filename]

\* types.ModuleType(name): a new module object
ModuleType(oid, name) ==
  [oid |-> oid, __name__ |-> name, __file__ |-> Absent, __loader__ |-> NoLoader,
   __package__ |-> "None", __path__ |-> Absent, __builtins__ |-> FALSE,
   syms |-> EmptyDict]

\* a module that was imported from a real file before the manager existed
ForeignModule ==
  [oid |-> 1, __name__ |-> "a", __file__ |-> "site/a/__init__.py",
   __loader__ |-> NoLoader, __package__ |-> "a", __path__ |-> "site/a",
   __builtins__ |-> TRUE, syms |-> [n \in {"orig"} |-> IntVal(0)]]

\* the object ids in use: registered modules and modules referenced by an attribute
UsedOids(mods) ==
  {mods[k].oid : k \in DOMAIN mods} \cup
  UNION {{mods[k].syms[n].oid :
             n \in {x \in DOMAIN mods[k].syms : mods[k].syms[x].kind = "module"}} :
          k \in DOMAIN mods}

FreshOid(mods) ==
  CHOOSE n \in 1..(Cardinality(UsedOids(mods)) + 1) : n \notin UsedOids(mods)

--------------------------------------------------------------------------
(* ModuleManager helpers (module_manager.py) *)

\* a path without history yields the empty text instead of None
get_source_empty(history, module_path) ==
  LET h == Get(history, module_path, << >>)
  IN  IF Len(h) = 0 THEN << "src", << >> >> ELSE << "src", h[Len(h)].source >>

\* the oldest entry of the history instead of the latest
get_source_first(history, module_path) ==
  LET h == Get(history, module_path, << >>)
  IN  IF Len(h) = 0 THEN << "None" >> ELSE << "src", h[1].source >>

get_source(history, module_path) ==
  LET h == Get(history, module_path, << >>)
  IN  IF Len(h) = 0 THEN << "None" >> ELSE << "src", h[Len(h)].source >>

get_history(history, module_path) == Get(history, module_path, << >>)

get_version(versions, module_path) == Get(versions, module_path, 0)

\* the namespace is not cleared: a patch merges into it
_clear_module_namespace_keep(module) == module

_clear_module_namespace(module) == [module EXCEPT !.syms = EmptyDict]

\* [line + "\n" for line in source.splitlines()]
SplitLines(source) == [i \in DOMAIN source |-> [source[i] EXCEPT !.eol = TRUE]]

\* an entry that is already in the cache is kept
_inject_linecache_keepOld(cache, filename, source) ==
  IF filename \in DOMAIN cache THEN cache
  ELSE Put(cache, filename,
           [size |-> Len(source), lines |-> SplitLines(source), fullname |-> filename])

_inject_linecache(cache, filename, source) ==
  Put(cache, filename,
      [size |-> Len(source), lines |-> SplitLines(source), fullname |-> filename])

RECURSIVE EnsureFrom(_, _, _, _)
\* the loop of _ensure_parent_packages from prefix length i on
EnsureFrom(mods, vp, parts, i) ==
  IF i >= Len(parts) THEN [mods |-> mods, vp |-> vp]
  ELSE LET parent_path == Dotted(SubSeq(parts, 1, i))
       IN  IF parent_path \in DOMAIN mods
           THEN EnsureFrom(mods, vp, parts, i + 1)
           ELSE LET pkg == [ModuleType(FreshOid(mods), parent_path)
                              EXCEPT !.__path__ = "[]", !.__package__ = parent_path]
                IN  EnsureFrom(Put(mods, parent_path, pkg),
                               vp \cup {parent_path}, parts, i + 1)

\* every proper prefix is marked auto-created, registered before or not
_ensure_parent_packages_markAll(mods, vp, parts) ==
  [mods |-> EnsureFrom(mods, vp, parts, 1).mods,
   vp   |-> vp \cup {Dotted(SubSeq(parts, 1, i)) : i \in 1..(Len(parts) - 1)}]

\* every ancestor is made anew, registered before or not
_ensure_parent_packages_recreate(mods, vp, parts) ==
  EnsureFrom([k \in DOMAIN mods \ {Dotted(SubSeq(parts, 1, i)) : i \in 1..(Len(parts) - 1)}
                |-> mods[k]],
             vp, parts, 1)

_ensure_parent_packages(mods, vp, parts) == EnsureFrom(mods, vp, parts, 1)

_attach_to_parent(mods, parts, module) ==
  IF Len(parts) > 1
  THEN LET parent_path == Dotted(ParentOf(parts))
           child_name  == LastOf(parts)
       IN  IF parent_path \in DOMAIN mods
           THEN [mods EXCEPT ![parent_path].syms = Put(@, child_name, ModuleRef(module.oid))]
           ELSE mods
  ELSE mods

\* the version taken from the length of the history
NextVersion_fromHistory(versions, module_path) ==
  Len(Get(_history, module_path, << >>)) + 1

\* version = self._versions.get(module_path, 0) + 1
NextVersion(versions, module_path) == get_version(versions, module_path) + 1

\* the history keeps the latest record only
AppendHistory_overwrite(history, module_path, record) ==
  Put(history, module_path, << record >>)

\* the new record goes in front of the earlier ones
AppendHistory_newestFirst(history, module_path, record) ==
  Put(history, module_path, << record >> \o Get(history, module_path, << >>))

\* self._history.setdefault(module_path, []).append(record)
AppendHistory(history, module_path, record) ==
  Put(history, module_path, Append(Get(history, module_path, << >>), record))

\* module.__package__ = module_path.rpartition(".")[0] or module_path
PackageOf(parts) == IF Len(parts) > 1 THEN Dotted(ParentOf(parts)) ELSE Dotted(parts)

\* a new module object is made for every call
GetOrCreateModule_fresh(mods, module_path) ==
  ModuleType(FreshOid(mods), module_path)

\* the module object patch_module fills: the registered one, cleared, or a new one
GetOrCreateModule(mods, module_path) ==
  IF module_path \in DOMAIN mods
  THEN _clear_module_namespace(mods[module_path])
  ELSE ModuleType(FreshOid(mods), module_path)

\* the parent segments do not take part in the file path
FilePath_flat(directory, parts) == directory \o << LastOf(parts) \o ".py" >>

\* Path(directory).joinpath(*parts[:-1], parts[-1] + ".py")
FilePath(directory, parts) ==
  directory \o ParentOf(parts) \o << LastOf(parts) \o ".py" >>

\* a path component that pathlib keeps
KeptComponent(s) == s \notin {"", "."}

\* str(file_path): the components joined by the separator, empty ones and "."
\* dropped; "." when nothing is left
PathStr(file_path) ==
  LET kept == SelectSeq(file_path, KeptComponent)
  IN  IF kept = << >> THEN "." ELSE Join(kept, "/")

\* file_path.parent.mkdir(parents=True, exist_ok=True)
MkdirParents(ds, file_path) ==
  ds \cup {PathStr(SubSeq(file_path, 1, i)) : i \in 1..(Len(file_path) - 1)}

\* the loop keeps only the objects it has retargeted
RetargetCode_funcsOnly(syms, virtual_filename, real_path) ==
  [n \in {x \in DOMAIN syms : syms[x].kind = "func"} |->
     FuncVal(_replace_code_filename(syms[n].__code__, virtual_filename, real_path))]

\* the loop of save_module over module.__dict__.values()
RetargetCode(syms, virtual_filename, real_path) ==
  [n \in DOMAIN syms |->
     IF syms[n].kind = "func" /\ syms[n].__code__.co_filename = virtual_filename
     THEN FuncVal(_replace_code_filename(syms[n].__code__, virtual_filename, real_path))
     ELSE syms[n]]

\* module.__file__ is left at the virtual file name
SavedModule_keepFile(module, virtual_filename, real_path) ==
  [module EXCEPT !.syms = RetargetCode(@, virtual_filename, real_path)]

\* the module object after save_module has retargeted it
SavedModule(module, virtual_filename, real_path) ==
  [module EXCEPT !.__file__ = real_path,
                 !.syms = RetargetCode(@, virtual_filename, real_path)]

--------------------------------------------------------------------------
(* Operations *)

Call(op, path, source, directory, err, ret) ==
  [op |-> op, path |-> path, source |-> source, directory |-> directory,
   err |-> err, ret |-> ret]

Init ==
  /\ sys_modules \in {EmptyDict, [k \in {"a"} |-> ForeignModule]}
  /\ sys_modules0 = sys_modules
  /\ linecache = EmptyDict
  /\ files = EmptyDict
  /\ dirs = {PathStr(d) : d \in Directories}
  /\ _history = EmptyDict
  /\ _versions = EmptyDict
  /\ _virtual_packages = {}
  /\ _patched_modules = {}
  /\ _class_registry = EmptyDict
  /\ classes = EmptyDict
  /\ _method_registry = EmptyDict
  /\ _attribute_registry = EmptyDict
  /\ _property_registry = EmptyDict
  /\ instances = {}
  /\ last = Call("init", "", << >>, << >>, "", "")
  /\ calls = EmptyDict
  /\ failed = EmptyDict
  /\ decls = EmptyDict
  /\ nops = 0
  /\ tool_result = NoResult
  /\ frame = NoFrame
  /\ messages = << >>
  /\ agent_pc = "idle"
  /\ response = << >>
  /\ results = << >>
  /\ cursor = 0
  /\ llm_calls = 0
  /\ streamed = 0
  /\ trace = << >>

\* no implementation is unregistered when a registered path is patched again
UnregisterStale_skip(mods, module_path, fp, cls) == [fp |-> fp, classes |-> cls]

\* the implementations of the path are unregistered whether it is registered or not
UnregisterStale_always(mods, module_path, fp, cls) ==
  unregister_module_impls(fp, cls, module_path)

\* if module_path in sys.modules: unregister_module_impls(module_path)
UnregisterStale(mods, module_path, fp, cls) ==
  IF module_path \in DOMAIN mods
  THEN unregister_module_impls(fp, cls, module_path)
  ELSE [fp |-> fp, classes |-> cls]

\* ModuleManager.patch_module(module_path, source), parts = module_path.split(".")
patch_module(parts, source) ==
  LET module_path      == Dotted(parts)
      version          == NextVersion(_versions, module_path)
      virtual_filename == VirtualFilename(parts)
      ens              == _ensure_parent_packages(sys_modules, _virtual_packages, parts)
      un               == UnregisterStale(ens.mods, module_path, Registries, classes)
      module0          == GetOrCreateModule(ens.mods, module_path)
      module1          == [module0 EXCEPT
                             !.__name__    = module_path,
                             !.__file__    = virtual_filename,
                             !.__loader__  = _VirtualLoader(source, virtual_filename),
                             !.__package__ = PackageOf(parts)]
      r                == CompileAndExec(source, module1, un.classes, _class_registry,
                                         decls, un.fp, Put(ens.mods, module_path, module1),
                                         virtual_filename)
      registered       == Put(ens.mods, module_path, r.module)
      record           == PatchRecord(module_path, source, version, virtual_filename)
  IN  /\ nops < MaxOps
      /\ nops' = nops + 1
      /\ _versions' = Put(_versions, module_path, version)
      /\ _virtual_packages' = ens.vp
      /\ _patched_modules' = _patched_modules \cup {module_path}
      /\ linecache' = _inject_linecache(linecache, virtual_filename, source)
      /\ classes' = r.classes
      /\ _class_registry' = r.registry
      /\ _method_registry' = r.fp._method_registry
      /\ _attribute_registry' = r.fp._attribute_registry
      /\ _property_registry' = r.fp._property_registry
      /\ decls' = r.decls
      /\ calls' = Put(calls, module_path, Get(calls, module_path, 0) + 1)
      /\ IF r.err = ""
         THEN /\ sys_modules' = _attach_to_parent(registered, parts, r.module)
              /\ _history' = AppendHistory(_history, module_path, record)
              /\ failed' = failed
              /\ last' = Call("patch_module", module_path, source, << >>, "", r.module.oid)
         ELSE /\ sys_modules' = registered
              /\ _history' = _history
              /\ failed' = Put(failed, module_path, Get(failed, module_path, 0) + 1)
              /\ last' = Call("patch_module", module_path, source, << >>, r.err, "")
      /\ UNCHANGED << files, dirs, instances, sys_modules0 >>

\* ModuleManager.save_module(module_path, directory)
save_module(parts, directory) ==
  LET module_path      == Dotted(parts)
      source           == get_source(_history, module_path)
      file_path        == FilePath(directory, parts)
      real_path        == PathStr(file_path)
      virtual_filename == VirtualFilename(parts)
  IN  /\ nops < MaxOps
      /\ nops' = nops + 1
      /\ IF source = << "None" >>
         THEN /\ last' = Call("save_module", module_path, << >>, directory, "ValueError", "")
              /\ UNCHANGED << sys_modules, linecache, files, dirs >>
         ELSE /\ dirs' = MkdirParents(dirs, file_path)
              /\ files' = Put(files, real_path, source[2])
              /\ sys_modules' =
                   IF module_path \in DOMAIN sys_modules
                   THEN [sys_modules EXCEPT
                           ![module_path] = SavedModule(@, virtual_filename, real_path)]
                   ELSE sys_modules
              /\ linecache' = Pop(linecache, virtual_filename)
              /\ last' = Call("save_module", module_path, << >>, directory, "", real_path)
      /\ UNCHANGED << _history, _versions, _virtual_packages, _patched_modules,
                      _class_registry, classes, instances, calls, failed, decls,
                      sys_modules0 >>
      /\ UnchangedRegistries

\* the second loop of cleanup, over the auto-created packages, left out
CleanedModules_patchedOnly(mods, patched, packages) ==
  [k \in DOMAIN mods \ patched |-> mods[k]]

\* sys.modules and linecache.cache after the two loops of cleanup
CleanedModules(mods, patched, packages) ==
  [k \in DOMAIN mods \ (patched \cup packages) |-> mods[k]]

CleanedCache(cache, patched) ==
  [f \in DOMAIN cache \ {"mutagent://" \o m : m \in patched} |-> cache[f]]

\* ModuleManager.cleanup()
cleanup ==
  /\ nops < MaxOps
  /\ nops' = nops + 1
  /\ sys_modules' = CleanedModules(sys_modules, _patched_modules, _virtual_packages)
  /\ linecache' = CleanedCache(linecache, _patched_modules)
  /\ _history' = EmptyDict
  /\ _versions' = EmptyDict
  /\ _patched_modules' = {}
  /\ _virtual_packages' = {}
  /\ calls' = EmptyDict
  /\ failed' = EmptyDict
  /\ last' = Call("cleanup", "", << >>, << >>, "", "")
  /\ UNCHANGED << files, dirs, _class_registry, classes, instances, decls,
                  sys_modules0 >>
  /\ UnchangedRegistries

\* the key under which a class object was declared
KeyOf(cls) == << cls.__dict__["__module__"].v, cls.__qualname__ >>

\* isinstance(obj, cls): every class of the model derives from mutagent.Object only
IsInstance(obj, id) == obj.__class__ = id

\* a caller constructs an instance of a class it reads from a registered module;
\* born is the number of declarations under the class's key made before that
Instantiate(module_path, name) ==
  /\ module_path \in DOMAIN sys_modules
  /\ name \in DOMAIN sys_modules[module_path].syms
  /\ sys_modules[module_path].syms[name].kind = "class"
  /\ LET id == sys_modules[module_path].syms[name].id
     IN  instances' = instances \cup
           {[__class__ |-> id, born |-> decls[KeyOf(classes[id])].count]}
  /\ UNCHANGED << sys_modules, linecache, files, dirs, _history, _versions,
                  _virtual_packages, _patched_modules, _class_registry, classes,
                  last, calls, failed, decls, nops, sys_modules0 >>
  /\ UnchangedRegistries

--------------------------------------------------------------------------
(* EssentialTools: builtins/patch_module.impl.py, builtins/save_module.impl.py *)

\* the exception types that derive from Exception
ExceptionTypes == {"Exception", "SyntaxError", "ValueError"}

\* str(e) of the exception a manager call raised
ExcStr(type, module_path) ==
  IF type = "ValueError" THEN "Module '" \o module_path \o "' has never been patched"
  ELSE IF type = "SyntaxError" THEN "invalid syntax"
  ELSE IF type = "SystemExit" THEN "0"
  ELSE "boom"

\* the tool returned the string whose pieces are value
Returned(value) == [raised |-> "", value |-> value]
\* the tool call raised
Propagated(type) == [raised |-> type, value |-> << >>]

\* except clause left out: the patch tool reports success whatever happened
PatchToolResult_alwaysOk(module_path, err, version) ==
  Returned(<< "OK", ": ", module_path, " patched (v", ToString(version), ")" >>)

\* the result of the patch_module tool: err is the type of the exception the
\* manager call raised ("" when it returned), version is get_version after it
PatchToolResult(module_path, err, version) ==
  IF err = ""
  THEN Returned(<< "OK", ": ", module_path, " patched (v", ToString(version), ")" >>)
  ELSE IF err \in ExceptionTypes
  THEN Returned(<< "Error", " patching ", module_path, ": ", err, ": ",
                   ExcStr(err, module_path) >>)
  ELSE Propagated(err)

\* the result of the save_module tool; path is what the manager call returned
SaveToolResult(module_path, err, path) ==
  IF err = ""
  THEN Returned(<< "OK", ": ", module_path, " saved to ", path >>)
  ELSE IF err \in ExceptionTypes
  THEN Returned(<< "Error", " saving ", module_path, ": ", err, ": ",
                   ExcStr(err, module_path) >>)
  ELSE Propagated(err)

\* EssentialTools.patch_module(module_path, source)
tool_patch_module(parts, source) ==
  /\ patch_module(parts, source)
  /\ UNCHANGED frame
  /\ tool_result' = PatchToolResult(Dotted(parts), last'.err,
                                    get_version(_versions', Dotted(parts)))

\* EssentialTools.save_module(module_path, file_path)
tool_save_module(parts, file_path) ==
  LET directory == IF file_path # << >> THEN file_path ELSE << "." >>
  IN  /\ save_module(parts, directory)
      /\ tool_result' = SaveToolResult(Dotted(parts), last'.err, last'.ret)
      /\ UNCHANGED frame

--------------------------------------------------------------------------

Next ==
  \/ \E parts \in ModulePaths, source \in Sources :
       patch_module(parts, source) /\ OthersIdle
  \/ \E parts \in ModulePaths, directory \in Directories :
       save_module(parts, directory) /\ OthersIdle
  \/ cleanup /\ OthersIdle
  \/ \E parts \in ModulePaths : Instantiate(Dotted(parts), "K") /\ OthersIdle

Spec == Init /\ [][Next]_vars

\* path strings split(".") accepts besides the dotted names: a deeper path, a
\* segment holding the path separator, an empty segment
OddPaths == {<< "p", "q", "r" >>, << "a/b" >>, << "a", "", "b" >>}

AllPaths == ModulePaths \cup OddPaths

\* patch and save calls over all these path strings
NextPaths ==
  \/ \E parts \in AllPaths, source \in {SrcOne, SrcSyntax} :
       patch_module(parts, source) /\ OthersIdle
  \/ \E parts \in AllPaths, directory \in Directories :
       save_module(parts, directory) /\ OthersIdle

SpecPaths == Init /\ [][NextPaths]_vars

\* a declaration module and an implementation module
ClassPaths == {<< "c" >>, << "a" >>}

\* class K(mutagent.Object): def run
SrcDecl == << MutClass("K", {"run"}) >>
\* class K(mutagent.Object): x: int; size = property; def run; def stop
SrcDeclMore == << MutClassWith("K", {"run", "stop"}, {"x"}, {"size"}, {}) >>
\* class K with a property the registered class object refuses to take
SrcDeclRefused == << MutClassWith("K", {"run"}, {}, {"size"}, {"size"}) >>
\* class K(mutagent.Object): def run; class W(mutagent.Object): x: int; def run
SrcDeclTwo == << MutClass("K", {"run"}), MutClassWith("W", {"run"}, {"x"}, {}, {}) >>
\* from c import K; @mutagent.impl(K.run) def run: return "v1"
SrcImplOne == << Impl("c", "K", "run", "v1", FALSE) >>
\* the same with "v2"
SrcImplTwo == << Impl("c", "K", "run", "v2", FALSE) >>
\* an implementation of K.run with "v3", then a statement that raises
SrcImplRaise == << Impl("c", "K", "run", "v3", FALSE), Raise >>
\* x = 1
SrcPlain == << Assign("x", 1) >>

ClassSources == {SrcDecl, SrcDeclMore, SrcDeclRefused, SrcDeclTwo, SrcImplOne,
                 SrcImplTwo, SrcImplRaise, SrcPlain}

\* patches of declaration and implementation modules, callers holding instances
NextClasses ==
  \/ \E parts \in ClassPaths, source \in ClassSources :
       patch_module(parts, source) /\ OthersIdle
  \/ cleanup /\ OthersIdle
  \/ \E parts \in ClassPaths : Instantiate(Dotted(parts), "K") /\ OthersIdle

SpecClasses == Init /\ [][NextClasses]_vars

\* class K(mutagent.Object): def stop
SrcDeclStop == << MutClass("K", {"stop"}) >>
\* class K(mutagent.Object): def run, while the registered class object refuses
\* to give up its member size
SrcDeclPinned == << MutClassWith("K", {"run"}, {}, {}, {"size"}) >>

MergeSources == {SrcDecl, SrcDeclMore, SrcDeclStop, SrcDeclRefused, SrcDeclPinned,
                 SrcImplOne}

\* declarations of c.K that add and drop members, implementations from module a
NextMerge ==
  \E parts \in ClassPaths, source \in MergeSources :
    patch_module(parts, source) /\ OthersIdle

SpecMerge == Init /\ [][NextMerge]_vars

--------------------------------------------------------------------------
(* ModuleManager.patch_module, statement by statement *)

\* what the parent of parts has bound under the last segment of parts
ParentBinding(mods, parts) ==
  IF Len(parts) > 1 /\ Dotted(ParentOf(parts)) \in DOMAIN mods
  THEN Get(mods[Dotted(ParentOf(parts))].syms, LastOf(parts), Absent)
  ELSE Absent

\* version = self._versions.get(module_path, 0) + 1; self._versions[...] = version
patch_bump_version(parts, source) ==
  LET module_path == Dotted(parts)
      version     == NextVersion(_versions, module_path)
  IN  /\ frame.pc = "idle"
      /\ nops < MaxOps
      /\ _versions' = Put(_versions, module_path, version)
      /\ frame' = [pc |-> "ensure", parts |-> parts, source |-> source,
                   version |-> version, history0 |-> _history,
                   parent0 |-> ParentBinding(sys_modules, parts)]
      /\ UNCHANGED << sys_modules, linecache, files, dirs, _history,
                      _virtual_packages, _patched_modules, _class_registry, classes,
                      instances, last, calls, failed, decls, nops, sys_modules0,
                      tool_result >>
      /\ UnchangedRegistries

\* self._ensure_parent_packages(module_path)
patch_ensure_parents ==
  LET ens == _ensure_parent_packages(sys_modules, _virtual_packages, frame.parts)
  IN  /\ frame.pc = "ensure"
      /\ sys_modules' = ens.mods
      /\ _virtual_packages' = ens.vp
      /\ frame' = [frame EXCEPT !.pc = "module"]
      /\ UNCHANGED << linecache, files, dirs, _history, _versions,
                      _patched_modules, _class_registry, classes, instances, last,
                      calls, failed, decls, nops, sys_modules0, tool_result >>
      /\ UnchangedRegistries

\* the registered module, its implementations unregistered and its namespace
\* cleared, or a new module, registered; self._patched_modules.add(module_path)
patch_get_or_create ==
  LET module_path == Dotted(frame.parts)
      un          == UnregisterStale(sys_modules, module_path, Registries, classes)
  IN  /\ frame.pc = "module"
      /\ sys_modules' = Put(sys_modules, module_path,
                            GetOrCreateModule(sys_modules, module_path))
      /\ classes' = un.classes
      /\ _method_registry' = un.fp._method_registry
      /\ _attribute_registry' = un.fp._attribute_registry
      /\ _property_registry' = un.fp._property_registry
      /\ _patched_modules' = _patched_modules \cup {module_path}
      /\ frame' = [frame EXCEPT !.pc = "attributes"]
      /\ UNCHANGED << linecache, files, dirs, _history, _versions,
                      _virtual_packages, _class_registry, instances, last, calls,
                      failed, decls, nops, sys_modules0, tool_result >>

\* module.__name__, __file__, __loader__, __package__
patch_set_attributes ==
  LET module_path      == Dotted(frame.parts)
      virtual_filename == VirtualFilename(frame.parts)
  IN  /\ frame.pc = "attributes"
      /\ sys_modules' =
           [sys_modules EXCEPT ![module_path] =
              [@ EXCEPT !.__name__    = module_path,
                        !.__file__    = virtual_filename,
                        !.__loader__  = _VirtualLoader(frame.source, virtual_filename),
                        !.__package__ = PackageOf(frame.parts)]]
      /\ frame' = [frame EXCEPT !.pc = "cache"]
      /\ UNCHANGED << linecache, files, dirs, _history, _versions,
                      _virtual_packages, _patched_modules, _class_registry, classes,
                      instances, last, calls, failed, decls, nops, sys_modules0,
                      tool_result >>
      /\ UnchangedRegistries

\* the source text is not entered in the cache
patch_inject_linecache_skip ==
  /\ frame.pc = "cache"
  /\ frame' = [frame EXCEPT !.pc = "exec"]
  /\ UNCHANGED << sys_modules, linecache, files, dirs, _history, _versions,
                  _virtual_packages, _patched_modules, _class_registry, classes,
                  instances, last, calls, failed, decls, nops, sys_modules0,
                  tool_result >>
  /\ UnchangedRegistries

\* self._inject_linecache(virtual_filename, source)
patch_inject_linecache ==
  /\ frame.pc = "cache"
  /\ linecache' = _inject_linecache(linecache, VirtualFilename(frame.parts), frame.source)
  /\ frame' = [frame EXCEPT !.pc = "exec"]
  /\ UNCHANGED << sys_modules, files, dirs, _history, _versions,
                  _virtual_packages, _patched_modules, _class_registry, classes,
                  instances, last, calls, failed, decls, nops, sys_modules0,
                  tool_result >>
  /\ UnchangedRegistries

\* code = compile(...); exec(code, module.__dict__): the source text runs to its
\* end, or raises and patch_module raises with it
patch_exec ==
  LET module_path == Dotted(frame.parts)
      r == CompileAndExec(frame.source, sys_modules[module_path], classes,
                          _class_registry, decls, Registries, sys_modules,
                          VirtualFilename(frame.parts))
  IN  /\ frame.pc = "exec"
      /\ sys_modules' = Put(sys_modules, module_path, r.module)
      /\ classes' = r.classes
      /\ _class_registry' = r.registry
      /\ _method_registry' = r.fp._method_registry
      /\ _attribute_registry' = r.fp._attribute_registry
      /\ _property_registry' = r.fp._property_registry
      /\ decls' = r.decls
      /\ IF r.err = ""
         THEN /\ frame' = [frame EXCEPT !.pc = "attach"]
              /\ UNCHANGED << last, calls, failed, nops >>
         ELSE /\ frame' = NoFrame
              /\ nops' = nops + 1
              /\ calls' = Put(calls, module_path, Get(calls, module_path, 0) + 1)
              /\ failed' = Put(failed, module_path, Get(failed, module_path, 0) + 1)
              /\ last' = Call("patch_module", module_path, frame.source, << >>, r.err, "")
      /\ UNCHANGED << linecache, files, dirs, _history, _versions,
                      _virtual_packages, _patched_modules, instances, sys_modules0,
                      tool_result >>

\* self._attach_to_parent(module_path, module)
patch_attach ==
  /\ frame.pc = "attach"
  /\ sys_modules' = _attach_to_parent(sys_modules, frame.parts,
                                      sys_modules[Dotted(frame.parts)])
  /\ frame' = [frame EXCEPT !.pc = "history"]
  /\ UNCHANGED << linecache, files, dirs, _history, _versions,
                  _virtual_packages, _patched_modules, _class_registry, classes,
                  instances, last, calls, failed, decls, nops, sys_modules0,
                  tool_result >>
  /\ UnchangedRegistries

\* self._history.setdefault(module_path, []).append(record); return module
patch_record ==
  LET module_path == Dotted(frame.parts)
      record == PatchRecord(module_path, frame.source, frame.version,
                            VirtualFilename(frame.parts))
  IN  /\ frame.pc = "history"
      /\ _history' = AppendHistory(_history, module_path, record)
      /\ frame' = NoFrame
      /\ nops' = nops + 1
      /\ calls' = Put(calls, module_path, Get(calls, module_path, 0) + 1)
      /\ last' = Call("patch_module", module_path, frame.source, << >>, "",
                      sys_modules[module_path].oid)
      /\ UNCHANGED << sys_modules, linecache, files, dirs, _versions,
                      _virtual_packages, _patched_modules, _class_registry, classes,
                      instances, failed, decls, sys_modules0, tool_result >>
      /\ UnchangedRegistries

\* patch_module calls, one statement group at a time
NextSteps ==
  \/ \E parts \in ModulePaths, source \in Sources :
       patch_bump_version(parts, source) /\ AgentIdle
  \/ patch_ensure_parents /\ AgentIdle
  \/ patch_get_or_create /\ AgentIdle
  \/ patch_set_attributes /\ AgentIdle
  \/ patch_inject_linecache /\ AgentIdle
  \/ patch_exec /\ AgentIdle
  \/ patch_attach /\ AgentIdle
  \/ patch_record /\ AgentIdle

SpecSteps == Init /\ [][NextSteps]_vars

\* x = 1; raise SystemExit(0)
SrcExit == << Assign("x", 1), RaiseExit >>

ToolSources == {SrcOne, SrcRaise, SrcSyntax, SrcExit}

\* the file_path arguments of the save_module tool; << >> is the default ""
ToolFilePaths == Directories \cup {<< >>}

\* the calls an agent makes through EssentialTools
NextTools ==
  \/ \E parts \in ModulePaths, source \in ToolSources :
       tool_patch_module(parts, source) /\ AgentIdle
  \/ \E parts \in ModulePaths, file_path \in ToolFilePaths :
       tool_save_module(parts, file_path) /\ AgentIdle

SpecTools == Init /\ [][NextTools]_vars

--------------------------------------------------------------------------
(* Agent: builtins/agent.impl.py, with ToolSelector.dispatch *)

\* the LLM calls of the runs together
MaxLLMCalls == 2
\* the events one LLM call streams
MaxStream == 2

ToolCall(id, name, arguments) == [id |-> id, name |-> name, arguments |-> arguments]
ToolResult(tool_call_id, content, is_error) ==
  [tool_call_id |-> tool_call_id, content |-> content, is_error |-> is_error]
Message(role, content, tool_calls, tool_results) ==
  [role |-> role, content |-> content, tool_calls |-> tool_calls,
   tool_results |-> tool_results]
Response(message, stop_reason) == [message |-> message, stop_reason |-> stop_reason]
\* a StreamEvent: body is the field that goes with the type
StreamEvent(type, body) == [type |-> type, body |-> body]

\* the methods of EssentialTools
EssentialToolNames ==
  {"inspect_module", "view_source", "patch_module", "save_module", "run_code"}

\* what getattr(self.essential_tools, name, None) finds: the tool methods, the
\* declared attribute module_manager, and what every object has
EssentialToolsAttributes == EssentialToolNames \cup {"module_manager", "__repr__"}

\* method(**tool_call.arguments) for the names the calls below use: the
\* attribute module_manager is not callable, __repr__ takes no argument and
\* returns the text of the object, an unexpected keyword raises TypeError,
\* run_code returns what the code printed and lets an exception that does not
\* derive from Exception through
Invoke(tool_call) ==
  IF tool_call.name = "module_manager"
  THEN [raised |-> "TypeError", value |-> "'ModuleManager' object is not callable"]
  ELSE IF tool_call.name = "__repr__"
  THEN IF DOMAIN tool_call.arguments # {}
       THEN [raised |-> "TypeError", value |-> "unexpected keyword argument"]
       ELSE [raised |-> "", value |-> "<EssentialTools object>"]
  ELSE IF DOMAIN tool_call.arguments # {"code"}
  THEN [raised |-> "TypeError", value |-> "unexpected keyword argument"]
  ELSE IF tool_call.arguments.code = "raise SystemExit"
  THEN [raised |-> "SystemExit", value |-> ""]
  ELSE [raised |-> "", value |-> "2"]

\* the except clause returns the text of the exception without is_error
dispatch_errorNotFlagged(tool_call) ==
  IF tool_call.name \notin EssentialToolsAttributes
  THEN [raised |-> "",
        result |-> ToolResult(tool_call.id, "Unknown tool: " \o tool_call.name, TRUE)]
  ELSE LET r == Invoke(tool_call) IN
       IF r.raised = ""
       THEN [raised |-> "", result |-> ToolResult(tool_call.id, r.value, FALSE)]
       ELSE IF r.raised \in {"TypeError", "Exception"}
       THEN [raised |-> "",
             result |-> ToolResult(tool_call.id, r.raised \o ": " \o r.value, FALSE)]
       ELSE [raised |-> r.raised, result |-> ToolResult(tool_call.id, "", TRUE)]

\* ToolSelector.dispatch(tool_call): the ToolResult returned, or the exception
\* that leaves dispatch
dispatch(tool_call) ==
  IF tool_call.name \notin EssentialToolsAttributes
  THEN [raised |-> "",
        result |-> ToolResult(tool_call.id, "Unknown tool: " \o tool_call.name, TRUE)]
  ELSE LET r == Invoke(tool_call) IN
       IF r.raised = ""
       THEN [raised |-> "", result |-> ToolResult(tool_call.id, r.value, FALSE)]
       ELSE IF r.raised \in {"TypeError", "Exception"}
       THEN [raised |-> "",
             result |-> ToolResult(tool_call.id, r.raised \o ": " \o r.value, TRUE)]
       ELSE [raised |-> r.raised, result |-> ToolResult(tool_call.id, "", TRUE)]

tc_1 == ToolCall("tc_1", "run_code", [code |-> "print(1+1)"])
tc_2 == ToolCall("tc_2", "no_such_tool", [code |-> ""])
tc_3 == ToolCall("tc_3", "run_code", [code |-> "raise SystemExit"])
tc_4 == ToolCall("tc_4", "run_code", [bogus |-> "1"])

\* the tool_calls lists of the responses
ToolCallLists == {<< >>, << tc_1 >>, << tc_2, tc_1 >>, << tc_4, tc_3 >>}

Responses ==
  {Response(Message("assistant", "text", tool_calls, << >>), stop_reason) :
     tool_calls \in ToolCallLists, stop_reason \in {"tool_use", "end_turn"}}

\* the events LLMClient.send_message can stream
ClientEvents ==
  {StreamEvent("text_delta", "Hello"), StreamEvent("error", "API failed")}
    \cup {StreamEvent("response_done", r) : r \in Responses}

\* entries of the trace of a run
Yielded(event)     == [kind |-> "yield", step |-> llm_calls, data |-> event]
Appended(message)  == [kind |-> "append", step |-> llm_calls, data |-> message]
Dispatched(call)   == [kind |-> "dispatch", step |-> llm_calls, data |-> call]

\* Agent.run(user_input): the user message is appended
run_begin(user_input) ==
  LET m == Message("user", user_input, << >>, << >>)
  IN  /\ agent_pc \in {"idle", "returned"}
      /\ llm_calls < MaxLLMCalls
      /\ messages' = Append(messages, m)
      /\ trace' = << [kind |-> "begin", step |-> llm_calls, data |-> Len(messages)],
                     Appended(m) >>
      /\ agent_pc' = "loop"
      /\ response' = << >>
      /\ results' = << >>
      /\ cursor' = 0
      /\ UNCHANGED << llm_calls, streamed >>

\* while True: response = None; self.step(stream) is called
step_begin ==
  /\ agent_pc = "loop"
  /\ llm_calls < MaxLLMCalls
  /\ llm_calls' = llm_calls + 1
  /\ response' = << >>
  /\ streamed' = 0
  /\ agent_pc' = "stream"
  /\ trace' = Append(trace, [kind |-> "llm_call", step |-> llm_calls + 1,
                             data |-> Len(messages)])
  /\ UNCHANGED << messages, results, cursor >>

\* run does not return on an error event
step_event_continue(event) ==
  /\ agent_pc = "stream"
  /\ streamed < MaxStream
  /\ streamed' = streamed + 1
  /\ trace' = Append(trace, Yielded(event))
  /\ response' = IF event.type = "response_done" THEN << event.body >> ELSE response
  /\ UNCHANGED << messages, results, cursor, llm_calls, agent_pc >>

\* the step streams an event: run yields it, keeps the response of a
\* response_done, returns on an error
step_event(event) ==
  /\ agent_pc = "stream"
  /\ streamed < MaxStream
  /\ streamed' = streamed + 1
  /\ trace' = Append(trace, Yielded(event))
  /\ response' = IF event.type = "response_done" THEN << event.body >> ELSE response
  /\ agent_pc' = IF event.type = "error" THEN "returned" ELSE agent_pc
  /\ UNCHANGED << messages, results, cursor, llm_calls >>

\* the stop reason is not looked at: tool calls are run whenever there are any
step_end_ignoreStopReason ==
  /\ agent_pc = "stream"
  /\ IF response = << >>
     THEN /\ trace' = Append(trace, Yielded(StreamEvent("error",
                               "No response_done event received from LLM")))
          /\ agent_pc' = "returned"
          /\ UNCHANGED << messages, results, cursor >>
     ELSE /\ messages' = Append(messages, response[1].message)
          /\ trace' = Append(trace, Appended(response[1].message))
          /\ IF response[1].message.tool_calls # << >>
             THEN /\ results' = << >>
                  /\ cursor' = 1
                  /\ agent_pc' = "tool_start"
             ELSE /\ agent_pc' = "returned"
                  /\ UNCHANGED << results, cursor >>
  /\ UNCHANGED << response, llm_calls, streamed >>

\* the stream of the step ends: without a response an error is yielded and run
\* returns; else the assistant message is appended and run goes on to the tool
\* calls or returns
step_end ==
  /\ agent_pc = "stream"
  /\ IF response = << >>
     THEN /\ trace' = Append(trace, Yielded(StreamEvent("error",
                               "No response_done event received from LLM")))
          /\ agent_pc' = "returned"
          /\ UNCHANGED << messages, results, cursor >>
     ELSE /\ messages' = Append(messages, response[1].message)
          /\ trace' = Append(trace, Appended(response[1].message))
          /\ IF response[1].stop_reason = "tool_use" /\ response[1].message.tool_calls # << >>
             THEN /\ results' = << >>
                  /\ cursor' = 1
                  /\ agent_pc' = "tool_start"
             ELSE /\ agent_pc' = "returned"
                  /\ UNCHANGED << results, cursor >>
  /\ UNCHANGED << response, llm_calls, streamed >>

\* the tool is dispatched without a tool_exec_start event
tool_exec_start_silent ==
  /\ agent_pc = "tool_start"
  /\ agent_pc' = "dispatch"
  /\ UNCHANGED << messages, response, results, cursor, llm_calls, streamed, trace >>

\* yield StreamEvent(type="tool_exec_start", tool_call=call)
tool_exec_start ==
  /\ agent_pc = "tool_start"
  /\ trace' = Append(trace, Yielded(StreamEvent("tool_exec_start",
                                               response[1].message.tool_calls[cursor])))
  /\ agent_pc' = "dispatch"
  /\ UNCHANGED << messages, response, results, cursor, llm_calls, streamed >>

\* result = await self.tool_selector.dispatch(call); the tool_exec_end event is
\* yielded and the result kept; after the last call the results are appended
\* as a user message and the loop starts again
tool_exec_end ==
  LET tool_calls == response[1].message.tool_calls
      call       == tool_calls[cursor]
      d          == dispatch(call)
      results1   == Append(results, d.result)
      m          == Message("user", "", << >>, results1)
  IN  /\ agent_pc = "dispatch"
      /\ IF d.raised # ""
         THEN /\ agent_pc' = "raised"
              /\ trace' = Append(trace, Dispatched(call))
              /\ UNCHANGED << messages, results, cursor >>
         ELSE /\ results' = results1
              /\ IF cursor = Len(tool_calls)
                 THEN /\ messages' = Append(messages, m)
                      /\ trace' = trace \o << Dispatched(call),
                                   Yielded(StreamEvent("tool_exec_end",
                                     [tool_call |-> call, tool_result |-> d.result])),
                                   Appended(m) >>
                      /\ agent_pc' = "loop"
                      /\ cursor' = cursor
                 ELSE /\ trace' = trace \o << Dispatched(call),
                                   Yielded(StreamEvent("tool_exec_end",
                                     [tool_call |-> call, tool_result |-> d.result])) >>
                      /\ cursor' = cursor + 1
                      /\ agent_pc' = "tool_start"
                      /\ UNCHANGED messages
      /\ UNCHANGED << response, llm_calls, streamed >>

UserInputs == {"Hi"}

NextAgent ==
  \/ \E user_input \in UserInputs : run_begin(user_input) /\ ManagerIdle
  \/ step_begin /\ ManagerIdle
  \/ \E event \in ClientEvents : step_event(event) /\ ManagerIdle
  \/ step_end /\ ManagerIdle
  \/ tool_exec_start /\ ManagerIdle
  \/ tool_exec_end /\ ManagerIdle

SpecAgent == Init /\ [][NextAgent]_vars

\* class K(mutagent.Object): def run; @mutagent.impl(K.run) def run: return "v1"
SrcDeclImpl == << MutClass("K", {"run"}), Impl("c", "K", "run", "v1", FALSE) >>

CleanupSources == {SrcDeclImpl, SrcDecl, SrcDeclMore, SrcImplTwo, SrcPlain}

\* patches of modules that declare and implement classes, and cleanups
NextCleanup ==
  \/ \E parts \in ClassPaths, source \in CleanupSources :
       patch_module(parts, source) /\ OthersIdle
  \/ cleanup /\ OthersIdle
  \/ \E parts \in ClassPaths : Instantiate(Dotted(parts), "K") /\ OthersIdle

SpecCleanup == Init /\ [][NextCleanup]_vars

\* class K(Base): def run; def stop    (Base derives from mutagent.Object)
SrcDeclBased == << MutClassBased("K", {"run", "stop"}, << "Base" >>) >>
\* class K(Base, Mixin): def run
SrcDeclTwoBases == << MutClassBased("K", {"run"}, << "Base", "Mixin" >>) >>

BasesSources == {SrcDecl, SrcDeclBased, SrcDeclTwoBases, SrcImplOne, SrcPlain}

\* declarations of one class with different base classes
NextBases ==
  \/ \E parts \in ClassPaths, source \in BasesSources :
       patch_module(parts, source) /\ OthersIdle
  \/ cleanup /\ OthersIdle
  \/ \E parts \in ClassPaths : Instantiate(Dotted(parts), "K") /\ OthersIdle

SpecBases == Init /\ [][NextBases]_vars

\* tool calls that name something of the tools object that is not a tool
tc_5 == ToolCall("tc_5", "module_manager", EmptyDict)
tc_6 == ToolCall("tc_6", "__repr__", EmptyDict)

\* responses that ask for one tool each, and one that ends the turn
DispatchResponses ==
  {Response(Message("assistant", "text", << tc >>, << >>), "tool_use") :
     tc \in {tc_1, tc_2, tc_3, tc_4, tc_5, tc_6}}
    \cup {Response(Message("assistant", "text", << >>, << >>), "end_turn")}

\* the agent with an LLM that asks for every kind of tool call
NextDispatch ==
  \/ \E user_input \in UserInputs : run_begin(user_input) /\ ManagerIdle
  \/ step_begin /\ ManagerIdle
  \/ \E r \in DispatchResponses :
       step_event(StreamEvent("response_done", r)) /\ ManagerIdle
  \/ step_end /\ ManagerIdle
  \/ tool_exec_start /\ ManagerIdle
  \/ tool_exec_end /\ ManagerIdle

SpecDispatch == Init /\ [][NextDispatch]_vars

--------------------------------------------------------------------------
(* Properties *)

\* every dotted path the manager or the registry knows, and every input path
KnownPaths ==
  {Dotted(p) : p \in ModulePaths} \cup DOMAIN sys_modules \cup DOMAIN _versions
    \cup DOMAIN _history

\* a successful / failed patch_module call is the last manager call
PatchedOk == last.op = "patch_module" /\ last.err = ""
PatchFailed == last.op = "patch_module" /\ last.err # ""
SavedOk == last.op = "save_module" /\ last.err = ""

\* C1: under every key, each class declaration after the first returns the
\* object the first one returned (the name the declaration binds in the module
\* namespace holds that object), the registry entry of the key is still that
\* object, and every instance a caller holds is an instance of the object
\* registered under its class's key.
C1_ClassIdentityPermanent ==
  /\ \A k \in DOMAIN decls :
       k \in DOMAIN _class_registry /\ _class_registry[k] = decls[k].first
  /\ \A m \in DOMAIN sys_modules :
       \A n \in DOMAIN sys_modules[m].syms :
         sys_modules[m].syms[n].kind = "class" =>
           sys_modules[m].syms[n].id = decls[<< sys_modules[m].__name__, n >>].first
  /\ \A obj \in instances :
       IsInstance(obj, _class_registry[KeyOf(classes[obj.__class__])])

\* C1 witness: a module namespace holds a class that has been declared again
\* since a caller constructed an instance of it.
C1_Witness ==
  \E m \in DOMAIN sys_modules : \E obj \in instances :
    /\ "K" \in DOMAIN sys_modules[m].syms
    /\ sys_modules[m].syms["K"] = ClassRef(obj.__class__)
    /\ decls[KeyOf(classes[obj.__class__])].count > obj.born
    /\ "stop" \in DOMAIN classes[obj.__class__].__dict__

\* C2 as stated: for every path the history is as long as the version number
\* and its version fields are 1..N in order, failed calls included.
C2_HistoryLengthIsVersion ==
  \A p \in KnownPaths :
    /\ Len(get_history(_history, p)) = get_version(_versions, p)
    /\ \A i \in 1..Len(get_history(_history, p)) :
         get_history(_history, p)[i].version = i

\* C2 amended: the history is as long as the version number less the number of
\* failed patch calls on the path; its version fields are strictly increasing
\* within 1..version, and are 1..N in order when no call on the path failed.
C2_HistoryLengthIsVersionLessFailures ==
  \A p \in KnownPaths :
    LET h == get_history(_history, p)
        v == get_version(_versions, p)
    IN  /\ Len(h) = v - Get(failed, p, 0)
        /\ \A i \in 1..Len(h) : h[i].version \in 1..v
        /\ \A i, j \in 1..Len(h) : i < j => h[i].version < h[j].version
        /\ Get(failed, p, 0) = 0 => \A i \in 1..Len(h) : h[i].version = i

\* C2 witness: a path with a failed patch call followed by a successful one.
C2_Witness ==
  \E p \in DOMAIN _history :
    /\ Get(failed, p, 0) > 0
    /\ Len(_history[p]) > 0
    /\ _history[p][Len(_history[p])].version = _versions[p]

\* C3: get_version(P) is the number of patch_module calls on P since the
\* manager was built or cleaned up (0 before any, failed calls counted), and
\* no step other than cleanup decreases it.
C3_VersionCountsCalls ==
  /\ [](\A p \in KnownPaths : get_version(_versions, p) = Get(calls, p, 0))
  /\ [][last'.op # "cleanup" =>
          \A p \in KnownPaths : get_version(_versions', p) >= get_version(_versions, p)]_vars

\* C3 witness: a path patched twice, the second call having failed.
C3_Witness ==
  /\ PatchFailed
  /\ get_version(_versions, last.path) = 2
  /\ Len(get_history(_history, last.path)) = 1

\* the value a statement binds to its name has the kind of the statement
BindsAs(st, val) ==
  /\ st.op = "assign" => val = IntVal(st.arg)
  /\ st.op = "def" => val.kind = "func"
  /\ st.op = "pyclass" => val.kind = "pyclass"
  /\ st.op = "class" => val.kind = "class"

\* C4: right after a successful patch_module(P, S2) that follows an earlier
\* patch of P, the symbols of P's namespace are exactly the names the
\* statements of S2 bind, each with the value S2 gives it.
C4_FullReplacement ==
  (PatchedOk /\ Get(calls, last.path, 0) >= 2) =>
    LET ns == sys_modules[last.path].syms
        S2 == last.source
    IN  /\ DOMAIN ns = {S2[i].name : i \in DOMAIN S2}
        /\ \A i \in DOMAIN S2 : BindsAs(S2[i], ns[S2[i].name])

\* C4 witness: P was patched with a source binding x, then successfully with
\* one binding y and not x; x is gone and y is there.
C4_Witness ==
  /\ PatchedOk
  /\ last.source = SrcTwo
  /\ Len(get_history(_history, last.path)) = 2
  /\ _history[last.path][1].source = SrcOne
  /\ "x" \notin DOMAIN sys_modules[last.path].syms
  /\ "y" \in DOMAIN sys_modules[last.path].syms

\* the statements of a source that run before its compile or exec fails
RunBeforeFailure(S) ==
  IF \E i \in DOMAIN S : S[i].op = "syntax" THEN {}
  ELSE {i \in DOMAIN S : \A j \in 1..i : S[j].op # "raise"}

\* C5: right after a patch_module(P, S) whose compile or exec failed, the
\* caller has the error, P is registered, its namespace holds exactly the
\* names S bound before the failure (none of the previous version), and what
\* was done before the failure stands: the version bump, the bookkeeping
\* attributes, the loader and the cache entry of S. The failing step consumes
\* one version and appends no history (no second attempt).
C5_FailedPatchKeepsPartialState ==
  /\ [](PatchFailed =>
         /\ last.err \in {"SyntaxError", "Exception"}
         /\ last.path \in DOMAIN sys_modules
         /\ LET m  == sys_modules[last.path]
                S  == last.source
                vf == "mutagent://" \o last.path
            IN  /\ DOMAIN m.syms = {S[i].name : i \in RunBeforeFailure(S)}
                /\ \A i \in RunBeforeFailure(S) : BindsAs(S[i], m.syms[S[i].name])
                /\ get_version(_versions, last.path) = Get(calls, last.path, 0)
                /\ last.path \in _patched_modules
                /\ m.__name__ = last.path
                /\ m.__file__ = vf
                /\ m.__loader__ = [_source |-> S, _filename |-> vf]
                /\ vf \in DOMAIN linecache
                /\ Len(linecache[vf].lines) = Len(S)
                /\ \A i \in DOMAIN S :
                     linecache[vf].lines[i] = [S[i] EXCEPT !.eol = TRUE])
  /\ [][(nops' = nops + 1 /\ last'.op = "patch_module" /\ last'.err # "") =>
          /\ get_version(_versions', last'.path) = get_version(_versions, last'.path) + 1
          /\ _history' = _history]_vars

\* C5 witness: a path whose previous version bound x was patched with a source
\* that binds y and then raises; y is there and x is not.
C5_Witness ==
  /\ PatchFailed
  /\ last.source = SrcRaise
  /\ Len(get_history(_history, last.path)) = 1
  /\ _history[last.path][1].source = SrcOne
  /\ DOMAIN sys_modules[last.path].syms = {"y"}

\* the step is a call of save_module
SaveStep == nops' = nops + 1 /\ last'.op = "save_module"

\* the file D/s1/.../sn.py of a dotted path s1.s2...sn under root directory D
FileOf(directory, path) ==
  LET parts == CHOOSE q \in ModulePaths : Dotted(q) = path
  IN  Join(directory \o SubSeq(parts, 1, Len(parts) - 1)
             \o << parts[Len(parts)] \o ".py" >>, "/")

\* C6: when save_module(P, D) is the call right after a successful
\* patch_module(P, S), it returns normally, the file at the computed location
\* holds exactly S, the namespace's __file__ is that real path and the cache
\* has no entry for P's virtual file name.
C6_PatchThenSave ==
  [][(PatchedOk /\ SaveStep /\ last'.path = last.path) =>
       LET loc == FileOf(last'.directory, last.path)
       IN  /\ last'.err = ""
           /\ last'.ret = loc
           /\ loc \in DOMAIN files'
           /\ files'[loc] = last.source
           /\ sys_modules'[last.path].__file__ = loc
           /\ ("mutagent://" \o last.path) \notin DOMAIN linecache']_vars

\* C6 witness: a run of two calls, a successful patch of P and then its save;
\* the file holds the patched source and __file__ names the file.
C6_Witness ==
  /\ SavedOk
  /\ nops = 2
  /\ Len(get_history(_history, last.path)) = 1
  /\ files[last.ret] = _history[last.path][1].source
  /\ sys_modules[last.path].__file__ = last.ret

\* every code object reachable from a code object records file name f
RECURSIVE CodeAllAt(_, _)
CodeAllAt(code, f) ==
  /\ code.co_filename = f
  /\ \A i \in DOMAIN code.co_consts : CodeAllAt(code.co_consts[i], f)

\* some code object reachable from a code object records file name f
RECURSIVE CodeSomeAt(_, _)
CodeSomeAt(code, f) ==
  \/ code.co_filename = f
  \/ \E i \in DOMAIN code.co_consts : CodeSomeAt(code.co_consts[i], f)

\* some function reachable from a namespace value records file name f: the
\* function itself, functions nested in it, members of a class the source
\* builds with the built-in metaclass (what forwardpy's ObjectMeta keeps of
\* the methods of a mutagent.Object subclass is not followed here)
ValueSomeAt(val, f) ==
  \/ val.kind = "func" /\ CodeSomeAt(val.__code__, f)
  \/ val.kind = "pyclass" /\ \E m \in DOMAIN val.dict :
       val.dict[m].kind = "func" /\ CodeSomeAt(val.dict[m].__code__, f)

\* C7 as stated: right after a successful save_module(P, D) no function
\* reachable from P's namespace (top-level, nested at any depth, member of a
\* class) still records P's virtual file name.
C7_NoUnitKeepsVirtualName ==
  (SavedOk /\ last.path \in DOMAIN sys_modules) =>
    \A n \in DOMAIN sys_modules[last.path].syms :
      ~ValueSomeAt(sys_modules[last.path].syms[n], "mutagent://" \o last.path)

\* C8: a save_module(P, D) call on a path without history raises ValueError
\* and changes nothing: file system, registry, cache, versions, histories and
\* the manager's sets are as before.
C8_SaveUnpatchedHasNoEffect ==
  [][(SaveStep /\ Len(get_history(_history, last'.path)) = 0) =>
       /\ last'.err = "ValueError"
       /\ UNCHANGED << files, dirs, sys_modules, linecache, _versions, _history,
                       _virtual_packages, _patched_modules >>]_vars

\* C8 witness: save_module raised ValueError on a path that is registered and
\* has a version, all its patch calls having failed.
C8_Witness ==
  /\ last.op = "save_module"
  /\ last.err = "ValueError"
  /\ last.path \in DOMAIN sys_modules
  /\ get_version(_versions, last.path) > 0
  /\ ("mutagent://" \o last.path) \in DOMAIN linecache

RECURSIVE StripCode(_)
StripCode(code) ==
  [co_consts |-> [i \in DOMAIN code.co_consts |-> StripCode(code.co_consts[i])]]

\* a namespace value without the file names of its own code
StripVal(val) ==
  IF val.kind = "func" THEN [kind |-> "func", shape |-> StripCode(val.__code__)]
  ELSE val

\* C10: a save_module(P, D) call leaves versions, histories, the set of
\* registered paths and the object bound to each path as they were, changes no
\* namespace other than P's, and in P's namespace changes nothing but __file__
\* and the file names recorded in the code of its functions; the cache loses
\* at most the entry of P's virtual file name; class objects and the class
\* registry are untouched.
C10_SaveChangesOnlyLocation ==
  [][SaveStep =>
       /\ _versions' = _versions
       /\ _history' = _history
       /\ DOMAIN sys_modules' = DOMAIN sys_modules
       /\ \A k \in DOMAIN sys_modules :
            /\ sys_modules'[k].oid = sys_modules[k].oid
            /\ k # last'.path => sys_modules'[k] = sys_modules[k]
            /\ [sys_modules'[k] EXCEPT !.__file__ = "", !.syms = << >>]
                 = [sys_modules[k] EXCEPT !.__file__ = "", !.syms = << >>]
            /\ DOMAIN sys_modules'[k].syms = DOMAIN sys_modules[k].syms
            /\ \A n \in DOMAIN sys_modules[k].syms :
                 StripVal(sys_modules'[k].syms[n]) = StripVal(sys_modules[k].syms[n])
       /\ DOMAIN linecache' \subseteq DOMAIN linecache
       /\ \A f \in DOMAIN linecache :
            f # ("mutagent://" \o last'.path) => f \in DOMAIN linecache' /\ linecache'[f] = linecache[f]
       /\ classes' = classes
       /\ _class_registry' = _class_registry]_vars

\* C10 witness: a save has moved the recorded file name of a function of P,
\* nested functions included, to the real path.
C10_Witness ==
  /\ SavedOk
  /\ \E n \in DOMAIN sys_modules[last.path].syms :
       /\ sys_modules[last.path].syms[n].kind = "func"
       /\ Len(sys_modules[last.path].syms[n].__code__.co_consts) > 0
       /\ CodeAllAt(sys_modules[last.path].syms[n].__code__, last.ret)
  /\ "x" \in DOMAIN sys_modules[last.path].syms

\* a cleanup call is the step taken
CleanupStep == nops' = nops + 1 /\ last'.op = "cleanup"

\* C11: a cleanup call leaves no path patched through the manager (the failed
\* calls included) and no package the manager auto-created in sys.modules,
\* leaves no cache entry under the virtual file name of any of them, and
\* afterwards get_version is 0, get_source is None and get_history is empty
\* for each such path.
C11_CleanupForgetsEverything ==
  [][CleanupStep =>
       \A p \in DOMAIN calls \cup _virtual_packages :
         /\ p \notin DOMAIN sys_modules'
         /\ ("mutagent://" \o p) \notin DOMAIN linecache'
         /\ get_version(_versions', p) = 0
         /\ get_source(_history', p) = << "None" >>
         /\ get_history(_history', p) = << >>]_vars

\* C11 witness: cleanup has run after a.b was patched and saved, which
\* auto-created the package a, and the registry holds neither path.
C11_Witness ==
  /\ last.op = "cleanup"
  /\ "out/a/b.py" \in DOMAIN files
  /\ DOMAIN sys_modules = {}
  /\ _versions = EmptyDict

\* C12 as stated: after a cleanup call sys.modules (the registered paths, the
\* object bound to each, the attributes of the namespaces the manager did not
\* create) is what it was before the manager's first operation, also when a
\* patched path or its parent was registered before.
C12_CleanupRestoresRegistry ==
  last.op = "cleanup" => sys_modules = sys_modules0

\* a patch_module call is the step taken
PatchStep == nops' = nops + 1 /\ last'.op = "patch_module"

\* C15: every manager call other than cleanup leaves the history of each path
\* a prefix of what it is afterwards, so every stored entry keeps its module
\* path, source text, version and virtual file name; a successful patch
\* appends exactly one entry, holding the call's path and source, the new
\* version and the virtual file name, and no other call appends any.
C15_HistoryAppendOnly ==
  [][(nops' = nops + 1 /\ last'.op # "cleanup") =>
       /\ \A p \in DOMAIN _history :
            /\ p \in DOMAIN _history'
            /\ Len(_history'[p]) >= Len(_history[p])
            /\ SubSeq(_history'[p], 1, Len(_history[p])) = _history[p]
       /\ \A p \in DOMAIN _history' :
            LET before == get_history(_history, p)
                after  == _history'[p]
            IN  IF last'.op = "patch_module" /\ last'.err = "" /\ last'.path = p
                THEN /\ Len(after) = Len(before) + 1
                     /\ after[Len(after)] =
                          [module_path |-> p, source |-> last'.source,
                           version |-> get_version(_versions', p),
                           virtual_filename |-> "mutagent://" \o p]
                ELSE after = before]_vars

\* C15 witness: a path holds two entries with different sources and versions
\* 1 and 2 after a later save of that path.
C15_Witness ==
  /\ SavedOk
  /\ Len(get_history(_history, last.path)) = 2
  /\ _history[last.path][1].version = 1
  /\ _history[last.path][2].version = 2
  /\ _history[last.path][1].source # _history[last.path][2].source

\* C16: every patch_module call on P, successful or not, first or repeated,
\* before or after a save, sets __file__ of P's namespace, the file name of its
\* loader and the key of its cache entry to mutagent://P, and so does every
\* PatchRecord written for P; the identifiers of two different paths differ.
C16_VirtualFilenameOfPathAlone ==
  /\ [][PatchStep =>
          LET P == last'.path
          IN  /\ sys_modules'[P].__file__ = "mutagent://" \o P
              /\ sys_modules'[P].__loader__._filename = "mutagent://" \o P
              /\ ("mutagent://" \o P) \in DOMAIN linecache'
              /\ \A Q \in DOMAIN sys_modules' :
                   (Q # P /\ Q \in DOMAIN calls') =>
                     sys_modules'[Q].__file__ # sys_modules'[P].__file__]_vars
  /\ [](\A P \in DOMAIN _history : \A i \in 1..Len(_history[P]) :
          /\ _history[P][i].virtual_filename = "mutagent://" \o P
          /\ \A Q \in DOMAIN _history : \A j \in 1..Len(_history[Q]) :
               Q # P => _history[Q][j].virtual_filename # _history[P][i].virtual_filename)

\* C16 witness: P was patched, saved, and patched again with a source that
\* fails; its namespace is back at the virtual file name its record holds.
C16_Witness ==
  /\ PatchFailed
  /\ nops = 3
  /\ Len(get_history(_history, last.path)) = 1
  /\ \E d \in Directories : FileOf(d, last.path) \in DOMAIN files
  /\ sys_modules[last.path].__file__ = _history[last.path][1].virtual_filename

\* the segments that are names
SegmentNames == {"a", "b", "c", "p", "q", "r"}

\* a dotted path all of whose segments are names
WellFormed(parts) == \A i \in DOMAIN parts : parts[i] \in SegmentNames

\* the file D/s1/.../s(n-1)/sn.py, written out for paths of up to three segments
ExpectedFile(directory, parts) ==
  CASE Len(parts) = 1 -> directory[1] \o "/" \o parts[1] \o ".py"
    [] Len(parts) = 2 -> directory[1] \o "/" \o parts[1] \o "/" \o parts[2] \o ".py"
    [] Len(parts) = 3 -> directory[1] \o "/" \o parts[1] \o "/" \o parts[2]
                           \o "/" \o parts[3] \o ".py"

\* the directories D/s1, D/s1/s2 above that file
ExpectedDirs(directory, parts) ==
  CASE Len(parts) = 1 -> {}
    [] Len(parts) = 2 -> {directory[1] \o "/" \o parts[1]}
    [] Len(parts) = 3 -> {directory[1] \o "/" \o parts[1],
                          directory[1] \o "/" \o parts[1] \o "/" \o parts[2]}

ProperPrefixes(parts) == {Dotted(SubSeq(parts, 1, i)) : i \in 1..(Len(parts) - 1)}

\* C18: after a patch_module call on P, successful or failed, every proper
\* dotted prefix of P is registered; a prefix registered before the call is
\* bound to the same object as before and the call does not mark it
\* auto-created; a prefix not registered before is a new package node (its
\* own name and package, an empty __path__) and is marked auto-created; the
\* call registers and marks nothing else but P itself, and a repeated call on
\* P registers and marks nothing.
C18_AncestorsEnsured ==
  [][PatchStep =>
       \A parts \in AllPaths : Dotted(parts) = last'.path =>
         /\ \A pre \in ProperPrefixes(parts) :
              /\ pre \in DOMAIN sys_modules'
              /\ IF pre \in DOMAIN sys_modules
                 THEN /\ sys_modules'[pre].oid = sys_modules[pre].oid
                      /\ (pre \in _virtual_packages') = (pre \in _virtual_packages)
                 ELSE /\ pre \in _virtual_packages'
                      /\ sys_modules'[pre].oid \notin UsedOids(sys_modules)
                      /\ sys_modules'[pre].__name__ = pre
                      /\ sys_modules'[pre].__package__ = pre
                      /\ sys_modules'[pre].__path__ = "[]"
         /\ _virtual_packages' \ _virtual_packages
              = ProperPrefixes(parts) \ DOMAIN sys_modules
         /\ DOMAIN sys_modules' \ DOMAIN sys_modules
              = (ProperPrefixes(parts) \cup {last'.path}) \ DOMAIN sys_modules
         /\ Get(calls, last'.path, 0) >= 1 =>
              /\ _virtual_packages' = _virtual_packages
              /\ DOMAIN sys_modules' = DOMAIN sys_modules]_vars

\* C18 witness: a was registered before the manager was built and a.b was
\* patched, then p.q.r was patched twice, the second call failing; p and p.q
\* are auto-created packages and a is not.
C18_Witness ==
  /\ PatchFailed
  /\ last.path = "p.q.r"
  /\ Get(calls, "p.q.r", 0) = 2
  /\ _virtual_packages = {"p", "p.q"}
  /\ "a" \in DOMAIN sys_modules0
  /\ "a.b" \in DOMAIN sys_modules
  /\ sys_modules["a"].oid = sys_modules0["a"].oid

\* the class statements of a source text that declare the key k when the text
\* runs as module k[1]
ClassStatements(source, k) ==
  {i \in DOMAIN source : source[i].op = "class" /\ source[i].name = k[2]}

\* the impl statements of a source text for method m of the class of key k
ImplStatements(source, k, m) ==
  {i \in DOMAIN source :
     /\ source[i].op = "impl"
     /\ source[i].name = m
     /\ << source[i].arg.module, source[i].arg.cls >> = k}

\* the step is a patch_module call that declares the registered key k again
Redeclares(k) ==
  /\ PatchStep
  /\ k \in DOMAIN _class_registry
  /\ k[1] = last'.path
  /\ decls'[k].count > decls[k].count

\* C13: when a patch declares again a class whose stub m has an implementation
\* attached by another module, and the new body declares m too, then
\* afterwards calling m, on the class and on every instance callers hold, runs
\* that implementation; in every state a declared method runs the
\* implementation registered for it and raises NotImplementedError when none
\* is, so a stub the new body adds raises until one is attached.
C13_ImplementationSurvivesRedefinition ==
  /\ [][\A k \in DOMAIN _class_registry : Redeclares(k) =>
          LET id == _class_registry[k] IN
          \A m \in DOMAIN Get(_method_registry, id, EmptyDict) :
            ( /\ _method_registry[id][m].__module__ # last'.path
              /\ \A i \in ClassStatements(last'.source, k) : m \in last'.source[i].arg
              /\ ImplStatements(last'.source, k, m) = {} ) =>
              /\ Dispatch(classes', id, m) = _method_registry[id][m].tag
              /\ \A obj \in instances' :
                   KeyOf(classes'[obj.__class__]) = k =>
                     Dispatch(classes', obj.__class__, m) = _method_registry[id][m].tag]_vars
  /\ [](\A id \in DOMAIN classes : \A n \in DOMAIN classes[id].__dict__ :
          classes[id].__dict__[n].kind \in {"stub", "impl"} =>
            Dispatch(classes, id, n) =
              IF n \in DOMAIN Get(_method_registry, id, EmptyDict)
              THEN _method_registry[id][n].tag
              ELSE "NotImplementedError")

\* C13 witness: a caller holds an instance of c.K made before K was declared
\* again with the added stub stop; run still runs the implementation module a
\* attached, stop raises.
C13_Witness ==
  \E obj \in instances :
    /\ KeyOf(classes[obj.__class__]) = << "c", "K" >>
    /\ decls[<< "c", "K" >>].count > obj.born
    /\ last.op = "patch_module" /\ last.path = "c" /\ last.source = SrcDeclMore
    /\ Dispatch(classes, obj.__class__, "run") = "v1"
    /\ _method_registry[obj.__class__]["run"].__module__ = "a"
    /\ Dispatch(classes, obj.__class__, "stop") = "NotImplementedError"

\* the class objects the class registry holds
CanonicalIds == {_class_registry[k] : k \in DOMAIN _class_registry}

\* C14: in every state the keys of the method, attribute and property
\* registries are registered class objects, never an object a redefinition
\* built and discarded; a class whose members include a stub, annotations or
\* a property has its entry under its own object; and every stub and property
\* on a class object, and every property in its registry entry, names that
\* object as its owning class.
C14_RegistriesHeldByCanonicalObject ==
  /\ DOMAIN _method_registry \subseteq CanonicalIds
  /\ DOMAIN _attribute_registry \subseteq CanonicalIds
  /\ DOMAIN _property_registry \subseteq CanonicalIds
  /\ DOMAIN classes = CanonicalIds
  /\ \A id \in DOMAIN classes :
       LET d == classes[id].__dict__ IN
       /\ \A a \in DOMAIN d :
            /\ d[a].kind = "stub" =>
                 d[a].__forwardpy_class__ = id /\ id \in DOMAIN _method_registry
            /\ d[a].kind = "property" =>
                 d[a].owner_cls = id /\ id \in DOMAIN _property_registry
            /\ d[a].kind = "annotations" =>
                 id \in DOMAIN _attribute_registry /\ _attribute_registry[id] = d[a].names
       /\ id \in DOMAIN _property_registry =>
            \A p \in DOMAIN _property_registry[id] :
              _property_registry[id][p].owner_cls = id

\* C14 witness: c.K was declared with the stub run and declared again with
\* stubs, an attribute and a property; all three registries hold its entry
\* under the one registered object.
C14_Witness ==
  /\ << "c", "K" >> \in DOMAIN decls
  /\ decls[<< "c", "K" >>].count = 2
  /\ LET id == _class_registry[<< "c", "K" >>]
     IN  /\ id = decls[<< "c", "K" >>].first
         /\ id \in DOMAIN _method_registry
         /\ id \in DOMAIN _attribute_registry
         /\ id \in DOMAIN _property_registry
         /\ classes[id].__dict__["size"].owner_cls = id
         /\ classes[id].__dict__["stop"].__forwardpy_class__ = id

\* the tags of the implementations a source text defines for method m of the
\* class object id, the class being named through the key k
TagsFor(source, k, m) ==
  {source[i].arg.tag : i \in ImplStatements(source, k, m)}

\* C19: when patch_module is called on a path P that is registered, a method
\* whose implementation P contributed before the call is served afterwards by
\* an implementation the new source defines for it, or by the stub when the
\* new source defines none (or fails before it does); the registry holds no
\* implementation of P other than those the new source defines. The old
\* implementation is gone before the new source runs: a new source that
\* attaches, without override, an implementation of the same method is not
\* refused.
C19_StaleImplementationsUnregistered ==
  [][(PatchStep /\ last'.path \in DOMAIN sys_modules) =>
       \A k \in DOMAIN _class_registry :
         LET id == _class_registry[k]
             P  == last'.path
             S  == last'.source
         IN  /\ \A m \in DOMAIN Get(_method_registry, id, EmptyDict) :
                  _method_registry[id][m].__module__ = P =>
                    /\ Dispatch(classes', id, m) \in
                         TagsFor(S, k, m) \cup {"NotImplementedError", "AttributeError"}
                    /\ TagsFor(S, k, m) = {} =>
                         /\ Dispatch(classes', id, m) # _method_registry[id][m].tag
                         /\ m \notin DOMAIN Get(_method_registry', id, EmptyDict)
                    /\ (last'.err = "" /\ TagsFor(S, k, m) # {}) =>
                         Dispatch(classes', id, m) \in TagsFor(S, k, m)
                    /\ (S \in {SrcImplOne, SrcImplTwo}
                          /\ k[1] \in DOMAIN sys_modules /\ k[1] # P
                          /\ k[2] \in DOMAIN sys_modules[k[1]].syms) =>
                         /\ last'.err = ""
                         /\ _method_registry'[id][m] = ImplVal(S[1].arg.tag, P)
             /\ \A m \in DOMAIN Get(_method_registry', id, EmptyDict) :
                  _method_registry'[id][m].__module__ = P =>
                    _method_registry'[id][m].tag \in TagsFor(S, k, m)]_vars

\* C19 witness: module a attached v1 to c.K.run and was patched again with the
\* source that attaches v2; run is served by v2.
C19_Witness ==
  /\ PatchedOk
  /\ last.path = "a"
  /\ last.source = SrcImplTwo
  /\ Get(calls, "a", 0) = 2
  /\ << "c", "K" >> \in DOMAIN _class_registry
  /\ Dispatch(classes, _class_registry[<< "c", "K" >>], "run") = "v2"
  /\ _method_registry[_class_registry[<< "c", "K" >>]]["run"] = ImplVal("v2", "a")

\* what forwardpy's registries hold for the class object id
EntriesOf(mr, ar, pr, id) ==
  [methods    |-> IF id \in DOMAIN mr THEN << mr[id] >> ELSE << >>,
   attributes |-> IF id \in DOMAIN ar THEN << ar[id] >> ELSE << >>,
   properties |-> IF id \in DOMAIN pr THEN << pr[id] >> ELSE << >>]

\* C20: declarations under keys that differ in the defining module or in the
\* qualified name return different class objects, each registered under its
\* own key; and a patch that declares again the classes of some keys, also
\* when the registered object refuses some of the members, leaves the
\* registered object, the members and the registry entries of every key it
\* does not declare as they were (a key whose methods the patched module
\* implements, or did, aside: those the patch itself unregisters or attaches).
C20_KeysAreIndependent ==
  /\ [](\A k1, k2 \in DOMAIN decls :
          /\ k1 \in DOMAIN _class_registry
          /\ KeyOf(classes[_class_registry[k1]]) = k1
          /\ k1 # k2 => decls[k1].first # decls[k2].first
          /\ k1 # k2 => _class_registry[k1] # _class_registry[k2])
  /\ [][PatchStep =>
          \A k \in DOMAIN _class_registry :
            LET id == _class_registry[k] IN
            ( /\ decls'[k] = decls[k]
              /\ \A m \in DOMAIN Get(_method_registry, id, EmptyDict) :
                   _method_registry[id][m].__module__ # last'.path
              /\ \A i \in DOMAIN last'.source :
                   last'.source[i].op = "impl" =>
                     << last'.source[i].arg.module, last'.source[i].arg.cls >> # k ) =>
              /\ _class_registry'[k] = id
              /\ classes'[id] = classes[id]
              /\ EntriesOf(_method_registry', _attribute_registry', _property_registry', id)
                   = EntriesOf(_method_registry, _attribute_registry, _property_registry, id)]_vars

\* C20 witness: c.K, c.W and a.K are three registered objects; c.K has just
\* been declared again with a property the registered object refused, so the
\* property registry has it and the class has not.
C20_Witness ==
  /\ {<< "c", "K" >>, << "c", "W" >>, << "a", "K" >>} \subseteq DOMAIN _class_registry
  /\ Cardinality({_class_registry[<< "c", "K" >>], _class_registry[<< "c", "W" >>],
                   _class_registry[<< "a", "K" >>]}) = 3
  /\ last.op = "patch_module" /\ last.path = "c" /\ last.source = SrcDeclRefused
  /\ decls[<< "c", "K" >>].count = 2
  /\ "size" \in DOMAIN _property_registry[_class_registry[<< "c", "K" >>]]
  /\ "size" \notin DOMAIN classes[_class_registry[<< "c", "K" >>]].__dict__

--------------------------------------------------------------------------
(* EssentialTools *)

\* a tool call is the step taken
ToolStep == nops' = nops + 1 /\ last'.op \in {"patch_module", "save_module"}

\* the string a tool returned reports what the manager call did: "OK" exactly
\* when it returned, with the version get_version reports after a patch, "Error"
\* with the exception's type and message when it raised
ToolReports ==
  /\ tool_result'.raised = ""
  /\ tool_result'.value[1] = "OK" <=> last'.err = ""
  /\ last'.err = "" /\ last'.op = "patch_module" =>
       tool_result'.value[5] = ToString(get_version(_versions', last'.path))
  /\ last'.err = "" /\ last'.op = "save_module" =>
       tool_result'.value[5] = last'.ret
  /\ last'.err # "" =>
       /\ tool_result'.value[1] = "Error"
       /\ tool_result'.value[5] = last'.err
       /\ tool_result'.value[7] = ExcStr(last'.err, last'.path)

\* C21 as stated: the patch_module and save_module tools never raise; each
\* returns a string starting with "OK" exactly when the manager call returned
\* (the patch message naming the version get_version reports after the call) and
\* a string starting with "Error" with the exception type and message when the
\* manager call raised.
C21_ToolsNeverRaise == [][ToolStep => ToolReports]_vars

\* C21: a tool call whose manager call returned, or raised an exception that
\* derives from Exception, returns the string described above; an exception
\* that does not derive from Exception (SystemExit raised by the patched source)
\* leaves the tool as it left the manager.
C21_ToolsReportExceptions ==
  [][ToolStep =>
       IF last'.err \in ExceptionTypes \cup {""}
       THEN ToolReports
       ELSE tool_result'.raised = last'.err /\ tool_result'.value = << >>]_vars

\* the source of a path patched once through the tool and saved raises
\* SystemExit in a second patch
C21_Witness ==
  /\ last.op = "patch_module"
  /\ tool_result.raised = "SystemExit"
  /\ get_version(_versions, last.path) = 2
  /\ files # EmptyDict

--------------------------------------------------------------------------
(* In-place merge: _update_class_inplace, _migrate_forwardpy_registries *)

\* the class statement of the source text of the step that declares key k
IncomingStatement(k) ==
  last'.source[CHOOSE i \in ClassStatements(last'.source, k) : TRUE]

\* the member names of the object super().__new__ builds for that statement
IncomingNames(k) ==
  DOMAIN NewClassObject(0, k[1], k[2], IncomingStatement(k), "").__dict__

\* C22: after a redefinition under a registered key, a member name that was on
\* the canonical object before and is absent from the incoming declaration is
\* not on the canonical object, unless its removal is refused; a stub that had
\* an implementation attached and that the new declaration drops is removed too.
C22_DroppedMembersRemoved ==
  [][\A k \in DOMAIN _class_registry : Redeclares(k) =>
       LET id == _class_registry[k] IN
       \A n \in (DOMAIN classes[id].__dict__ \ IncomingNames(k))
                  \ IncomingStatement(k).readonly :
         n \notin DOMAIN classes'[id].__dict__]_vars

\* getattr(cls, _DECLARED_METHODS, set())
DeclaredMethods(cls) ==
  IF _DECLARED_METHODS \in DOMAIN cls.__dict__
  THEN cls.__dict__[_DECLARED_METHODS].names
  ELSE {}

\* C23: after a redefinition the declared-interface member-name set of the
\* canonical object is the set of the incoming declaration: the names the new
\* definition declares are in it, names only the old one declared are not.
C23_DeclaredNamesReplaced ==
  [][\A k \in DOMAIN _class_registry : Redeclares(k) =>
       DeclaredMethods(classes'[_class_registry[k]]) =
         DeclaredMethods(NewClassObject(0, k[1], k[2], IncomingStatement(k), ""))]_vars

\* C23 witness: c.K, declared with run, has been declared again with stop only
C23_Witness ==
  /\ last.op = "patch_module" /\ last.path = "c" /\ last.source = SrcDeclStop
  /\ decls[<< "c", "K" >>].count = 2
  /\ _history["c"][1].source = SrcDecl
  /\ DeclaredMethods(classes[_class_registry[<< "c", "K" >>]]) = {"stop"}

\* the registry entries ObjectMeta makes for the object (here 0) it builds from
\* the class statement of the step
IncomingEntries(k) ==
  ObjectMeta_new([_method_registry |-> EmptyDict, _attribute_registry |-> EmptyDict,
                  _property_registry |-> EmptyDict], 0, IncomingStatement(k))

\* C24: after a redefinition the declared-attribute entry and the
\* computed-property entry of the canonical object are those of the incoming
\* declaration, no entry of the old definition survives, also when the
\* incoming declaration has no entry in a registry, and every computed
\* property names the canonical object as its owner.
C24_RegistriesReplaced ==
  [][\A k \in DOMAIN _class_registry : Redeclares(k) =>
       LET id  == _class_registry[k]
           inc == IncomingEntries(k)
       IN  /\ IF 0 \in DOMAIN inc._attribute_registry
              THEN /\ id \in DOMAIN _attribute_registry'
                   /\ _attribute_registry'[id] = inc._attribute_registry[0]
              ELSE id \notin DOMAIN _attribute_registry'
           /\ IF 0 \in DOMAIN inc._property_registry
              THEN /\ id \in DOMAIN _property_registry'
                   /\ DOMAIN _property_registry'[id] = DOMAIN inc._property_registry[0]
              ELSE id \notin DOMAIN _property_registry'
           /\ \A p \in DOMAIN Get(_property_registry', id, EmptyDict) :
                _property_registry'[id][p].owner_cls = id]_vars

\* the names for which a delattr or a setattr of the merge of the step raises
Refused(k) ==
  IncomingStatement(k).readonly \cap
    ((DOMAIN classes[_class_registry[k]].__dict__ \cup IncomingNames(k)) \ _SKIP)

--------------------------------------------------------------------------
(* Parent attachment *)

RECURSIVE TotalLen(_, _)
\* the number of records the histories of the paths in S hold together
TotalLen(h, S) ==
  IF S = {} THEN 0
  ELSE LET m == CHOOSE x \in S : TRUE IN Len(h[m]) + TotalLen(h, S \ {m})

\* every manager call so far was a patch_module call that returned
OnlySuccessfulPatches == nops = TotalLen(_history, DOMAIN _history)

\* C26: in every state reached by successful patches alone, each registered
\* path with a parent has its namespace bound, under its last segment, on the
\* namespace of the parent, also when the parent was patched after the child.
C26_ChildBoundOnParent ==
  OnlySuccessfulPatches =>
    \A P \in ModulePaths :
      (Len(P) > 1 /\ Dotted(P) \in DOMAIN sys_modules) =>
        LET parent == Dotted(ParentOf(P)) IN
        /\ parent \in DOMAIN sys_modules
        /\ LastOf(P) \in DOMAIN sys_modules[parent].syms
        /\ sys_modules[parent].syms[LastOf(P)] = ModuleRef(sys_modules[Dotted(P)].oid)

--------------------------------------------------------------------------
(* The order of the steps of one patch_module call *)

\* the positions of a call, in the order of the statements
Positions == << "ensure", "module", "attributes", "cache", "exec", "attach", "history" >>

\* the positions from the i-th on
FromPosition(i) == {Positions[j] : j \in i..Len(Positions)}

\* what holds at each position of a patch_module(P, S) call in progress
OrderedEffects ==
  LET P  == Dotted(frame.parts)
      vf == VirtualFilename(frame.parts)
  IN  /\ frame.pc \in FromPosition(1) =>
           /\ get_version(_versions, P) = frame.version
           /\ frame.version = Get(calls, P, 0) + 1
      /\ frame.pc \in FromPosition(2) =>
           \A q \in ProperPrefixes(frame.parts) : q \in DOMAIN sys_modules
      /\ frame.pc \in FromPosition(3) =>
           P \in DOMAIN sys_modules /\ P \in _patched_modules
      /\ frame.pc = "attributes" => sys_modules[P].syms = EmptyDict
      /\ frame.pc \in FromPosition(4) =>
           /\ sys_modules[P].__file__ = vf
           /\ sys_modules[P].__loader__ = _VirtualLoader(frame.source, vf)
      /\ frame.pc \in FromPosition(5) =>
           /\ vf \in DOMAIN linecache
           /\ linecache[vf].lines = SplitLines(frame.source)
      /\ frame.pc = "exec" => sys_modules[P].syms = EmptyDict
      /\ frame.pc \in FromPosition(1) \ {"history"} =>
           ParentBinding(sys_modules, frame.parts) = frame.parent0
      /\ frame.pc \in FromPosition(1) => _history = frame.history0
      /\ frame.pc = "history" /\ Len(frame.parts) > 1 =>
           ParentBinding(sys_modules, frame.parts) = ModuleRef(sys_modules[P].oid)

\* C27: within one patch_module(P, S) call the steps come in this order:
\* version bump, ancestor creation, unregister-and-clear or create-and-register,
\* bookkeeping attributes, cache registration of S, execution of S, parent
\* attachment, history append. While S executes get_version(P) is the new
\* version, P and its ancestors are registered and the cache holds S; the
\* parent attribute and the history change only after S has finished without
\* error, and not at all when S raises.
C27_StepsInOrder ==
  /\ []OrderedEffects
  /\ [][frame.pc # "idle" =>
          \/ \E j \in 1..(Len(Positions) - 1) :
               frame.pc = Positions[j] /\ frame'.pc = Positions[j + 1]
          \/ /\ frame.pc = "exec" /\ frame'.pc = "idle" /\ last'.err # ""
             /\ _history' = frame.history0
             /\ ParentBinding(sys_modules', frame.parts) = frame.parent0
          \/ /\ frame.pc = "history" /\ frame'.pc = "idle" /\ last'.err = ""
             /\ Len(_history'[Dotted(frame.parts)]) =
                  Len(Get(_history, Dotted(frame.parts), << >>)) + 1]_vars

\* C27 witness: the second patch of a.b, after a first one that raised, is
\* about to execute its source: the version is 2, the cache holds the source,
\* a.b has no history and a has no attribute b
C27_Witness ==
  /\ frame.pc = "exec"
  /\ frame.parts = << "a", "b" >>
  /\ get_version(_versions, "a.b") = 2
  /\ linecache["mutagent://a.b"].lines = SplitLines(frame.source)
  /\ "a.b" \notin DOMAIN _history
  /\ ParentBinding(sys_modules, frame.parts) = Absent

--------------------------------------------------------------------------
(* Agent.run *)

\* the entry is the yield of an event that came from the LLM client / of a
\* tool_exec event, or a dispatch
IsStreamEntry(e) ==
  e.kind = "yield" /\ e.data.type \notin {"tool_exec_start", "tool_exec_end"}
IsToolEntry(e) ==
  \/ e.kind = "dispatch"
  \/ e.kind = "yield" /\ e.data.type \in {"tool_exec_start", "tool_exec_end"}

\* the LLM steps of the current run
StepsOfRun == {n \in 1..llm_calls : \E i \in DOMAIN trace :
                 trace[i].kind = "llm_call" /\ trace[i].step = n}

\* what run yielded from the stream of step n, and what it did for the tool
\* calls of step n, in order
StreamOf(n) == SelectSeq(trace, LAMBDA e : e.step = n /\ IsStreamEntry(e))
ToolPartOf(n) == SelectSeq(trace, LAMBDA e : e.step = n /\ IsToolEntry(e))

\* everything run did in step n after the call of step
StepOf(n) == SelectSeq(trace, LAMBDA e : e.step = n /\ e.kind \in {"yield", "dispatch"})

\* the response of step n: that of its last response_done event, << >> if none
ResponseOf(n) ==
  LET done == SelectSeq(StreamOf(n), LAMBDA e : e.data.type = "response_done")
  IN  IF done = << >> THEN << >> ELSE << done[Len(done)].data.body >>

HasError(n) == \E i \in DOMAIN StreamOf(n) : StreamOf(n)[i].data.type = "error"

\* step n asks for tools
IsToolUse(n) ==
  /\ ResponseOf(n) # << >>
  /\ ResponseOf(n)[1].stop_reason = "tool_use"
  /\ ResponseOf(n)[1].message.tool_calls # << >>

\* step n is over: a later step has begun, or run is back at the head of the
\* loop, has returned or has raised
StepOver(n) == n < llm_calls \/ agent_pc \in {"loop", "returned", "raised"}

\* per tool call, in call order: tool_exec_start, the dispatch, tool_exec_end
ExpectedToolPart(n, tool_calls) ==
  [j \in 1..(3 * Len(tool_calls)) |->
     LET call == tool_calls[(j + 2) \div 3] IN
     IF j % 3 = 1
     THEN [kind |-> "yield", step |-> n, data |-> StreamEvent("tool_exec_start", call)]
     ELSE IF j % 3 = 2
     THEN [kind |-> "dispatch", step |-> n, data |-> call]
     ELSE [kind |-> "yield", step |-> n,
           data |-> StreamEvent("tool_exec_end",
                      [tool_call |-> call, tool_result |-> dispatch(call).result])]]

IsPrefix(a, b) == Len(a) <= Len(b) /\ a = SubSeq(b, 1, Len(a))

\* no tool_exec event of a step comes before an event of its stream
ToolEventsLast ==
  \A n \in StepsOfRun : StepOf(n) = StreamOf(n) \o ToolPartOf(n)

\* C28 as stated: every LLM step whose response has stop_reason tool_use and at
\* least one tool call is followed, after its response_done and before the next
\* step, by tool_exec_start then tool_exec_end for each call in call order,
\* one call at a time; no tool_exec event comes before the response_done.
C28_ToolEventsForEveryToolStep ==
  /\ ToolEventsLast
  /\ \A n \in StepsOfRun :
       IF IsToolUse(n)
       THEN /\ IsPrefix(ToolPartOf(n),
                        ExpectedToolPart(n, ResponseOf(n)[1].message.tool_calls))
            /\ StepOver(n) =>
                 ToolPartOf(n) = ExpectedToolPart(n, ResponseOf(n)[1].message.tool_calls)
       ELSE ToolPartOf(n) = << >>

\* C28: the same for every step that yields no error event, up to a dispatch
\* that raises: a step that yields an error event runs no tool, and a dispatch
\* that raises ends the run after the tool_exec_start of its call.
C28_ToolEventsInCallOrder ==
  /\ ToolEventsLast
  /\ \A n \in StepsOfRun :
       IF IsToolUse(n) /\ ~HasError(n)
       THEN LET expected == ExpectedToolPart(n, ResponseOf(n)[1].message.tool_calls)
            IN  /\ IsPrefix(ToolPartOf(n), expected)
                /\ StepOver(n) /\ ~(agent_pc = "raised" /\ n = llm_calls) =>
                     ToolPartOf(n) = expected
                /\ agent_pc = "raised" /\ n = llm_calls =>
                     /\ ToolPartOf(n) # << >>
                     /\ ToolPartOf(n)[Len(ToolPartOf(n))].kind = "dispatch"
                     /\ dispatch(ToolPartOf(n)[Len(ToolPartOf(n))].data).raised # ""
       ELSE ToolPartOf(n) = << >>

\* C28 witness: the first step asked for two tools, both were executed in
\* order, and the second step has begun
C28_Witness ==
  /\ llm_calls = 2
  /\ 1 \in StepsOfRun
  /\ IsToolUse(1)
  /\ ResponseOf(1)[1].message.tool_calls = << tc_2, tc_1 >>
  /\ ToolPartOf(1) = ExpectedToolPart(1, << tc_2, tc_1 >>)
  /\ agent_pc = "stream"

\* the messages the current run appended
MessagesOfRun == SubSeq(messages, trace[1].data + 1, Len(messages))

\* the trace entries of step n that append a message / dispatch a tool
AppendsOf(n) == SelectSeq(trace, LAMBDA e : e.step = n /\ e.kind = "append")
DispatchesOf(n) == SelectSeq(trace, LAMBDA e : e.step = n /\ e.kind = "dispatch")

\* the messages are the earlier ones and what the trace says was appended
TraceTellsMessages ==
  trace # << >> =>
    LET appends == SelectSeq(trace, LAMBDA e : e.kind = "append")
    IN  MessagesOfRun = [j \in DOMAIN appends |-> appends[j].data]

\* C29: when an LLM step yields an error event, run yields it and stops: it is
\* the last thing the run does, no tool of that step is dispatched, no later
\* LLM call is made and no assistant message is appended for the step; when
\* a step ends without response_done, run yields exactly one error event and
\* stops in the same way.
C29_ErrorStopsRun ==
  /\ TraceTellsMessages
  /\ \A i \in DOMAIN trace :
       (trace[i].kind = "yield" /\ trace[i].data.type = "error") =>
         /\ i = Len(trace)
         /\ agent_pc = "returned"
         /\ trace[i].step = llm_calls
         /\ AppendsOf(trace[i].step) = << >>
         /\ DispatchesOf(trace[i].step) = << >>
  /\ \A n \in StepsOfRun :
       ((n < llm_calls \/ agent_pc # "stream") /\ ResponseOf(n) = << >>) =>
         /\ n = llm_calls
         /\ agent_pc = "returned"
         /\ trace[Len(trace)].kind = "yield"
         /\ trace[Len(trace)].data.type = "error"
         /\ Len(SelectSeq(StreamOf(n), LAMBDA e : e.data.type = "error")) = 1
         /\ AppendsOf(n) = << >>

\* C29 witness: after a step with a tool call, the second step yielded a
\* response_done and then an error: the run has stopped, the messages end with
\* the tool results
C29_Witness ==
  /\ agent_pc = "returned"
  /\ llm_calls = 2
  /\ IsToolUse(1)
  /\ Len(StreamOf(2)) = 2
  /\ StreamOf(2)[1].data.type = "response_done"
  /\ StreamOf(2)[2].data = StreamEvent("error", "API failed")
  /\ messages[Len(messages)].role = "user"
  /\ messages[Len(messages)].tool_results # << >>

\* the run has returned and has yielded no error event
FinishedWithoutError ==
  /\ agent_pc = "returned"
  /\ \A i \in DOMAIN trace : ~(trace[i].kind = "yield" /\ trace[i].data.type = "error")

\* the user message with the results of the tool calls, in call order
ToolResultsMessage(tool_calls) ==
  Message("user", "", << >>, [j \in DOMAIN tool_calls |-> dispatch(tool_calls[j]).result])

RECURSIVE MessagesFrom(_)
\* the messages of the steps from n on: per tool-use step the assistant message
\* and the tool results, then the assistant message of the first other step
MessagesFrom(n) ==
  IF n > llm_calls THEN << >>
  ELSE LET r == ResponseOf(n)[1] IN
       IF IsToolUse(n)
       THEN << r.message, ToolResultsMessage(r.message.tool_calls) >> \o MessagesFrom(n + 1)
       ELSE << r.message >>

\* the first LLM step of the current run
FirstStep == CHOOSE n \in StepsOfRun : \A m \in StepsOfRun : n <= m

\* C30: when run has returned without an error event, the messages it
\* appended are the user input, then per tool-use step the assistant message
\* and one user message with one tool result per tool call in call order, then
\* the assistant message of the first step that is not a tool-use step; every
\* step before the last is a tool-use step, the last is not, and a step that
\* is not a tool-use step is the last.
C30_MessagesOfFinishedRun ==
  /\ FinishedWithoutError =>
       /\ StepsOfRun # {}
       /\ MessagesOfRun =
            << Message("user", "Hi", << >>, << >>) >> \o MessagesFrom(FirstStep)
       /\ ~IsToolUse(llm_calls)
       /\ \A n \in StepsOfRun \ {llm_calls} : IsToolUse(n)
       /\ \A j \in DOMAIN MessagesOfRun :
            MessagesOfRun[j].tool_results # << >> =>
              /\ Len(MessagesOfRun[j].tool_results) = Len(MessagesOfRun[j - 1].tool_calls)
              /\ \A c \in DOMAIN MessagesOfRun[j].tool_results :
                   MessagesOfRun[j].tool_results[c].tool_call_id =
                     MessagesOfRun[j - 1].tool_calls[c].id
  /\ \A n \in StepsOfRun :
       (StepOver(n) /\ ~HasError(n) /\ ResponseOf(n) # << >> /\ ~IsToolUse(n)) =>
         n = llm_calls /\ agent_pc = "returned"

\* C30 witness: a run of two steps has returned: the first asked for two
\* tools, the second has stop_reason tool_use but no tool call; four messages
\* were appended
C30_Witness ==
  /\ FinishedWithoutError
  /\ llm_calls = 2
  /\ FirstStep = 1
  /\ ResponseOf(1)[1].message.tool_calls = << tc_2, tc_1 >>
  /\ ResponseOf(2)[1].stop_reason = "tool_use"
  /\ Len(MessagesOfRun) = 4
  /\ Len(MessagesOfRun[3].tool_results) = 2

--------------------------------------------------------------------------
(* ToolSelector.dispatch *)

\* the tool names an LLM is told about
IsTool(tool_call) == tool_call.name \in EssentialToolNames

\* the result the claim describes for a call: the call's id; Unknown tool for a
\* name that is no tool, the type and message of the exception the tool
\* raised, else the returned value as text
DescribedResult(tool_call) ==
  IF ~IsTool(tool_call)
  THEN ToolResult(tool_call.id, "Unknown tool: " \o tool_call.name, TRUE)
  ELSE IF Invoke(tool_call).raised # ""
  THEN ToolResult(tool_call.id,
                  Invoke(tool_call).raised \o ": " \o Invoke(tool_call).value, TRUE)
  ELSE ToolResult(tool_call.id, Invoke(tool_call).value, FALSE)

\* entry i of the trace is a dispatch that returned result
DispatchReturned(i, result) ==
  /\ i < Len(trace)
  /\ trace[i + 1] = [kind |-> "yield", step |-> trace[i].step,
                     data |-> StreamEvent("tool_exec_end",
                                [tool_call |-> trace[i].data, tool_result |-> result])]

\* C31 as stated: dispatch never raises, and every call returns the result
\* with the call's id that goes with its case: Unknown tool for an unknown
\* name, type and message for an exception of the tool, the value otherwise.
C31_DispatchNeverRaises ==
  /\ agent_pc # "raised"
  /\ \A i \in DOMAIN trace :
       trace[i].kind = "dispatch" => DispatchReturned(i, DescribedResult(trace[i].data))

\* C31: a call whose name is no attribute of the tools object returns Unknown
\* tool; a tool that raises an exception derived from Exception returns its
\* type and message with is_error; a tool that returns gives its value without
\* is_error; the id is the call's id in each case.  A name that is an attribute
\* but no tool is called like a tool, and an exception that does not derive
\* from Exception leaves dispatch.
C31_DispatchReportsExceptions ==
  \A i \in DOMAIN trace :
    trace[i].kind = "dispatch" =>
      LET call == trace[i].data
          r    == Invoke(call)
      IN  IF call.name \notin EssentialToolsAttributes
          THEN DispatchReturned(i, ToolResult(call.id, "Unknown tool: " \o call.name, TRUE))
          ELSE IF r.raised = ""
          THEN DispatchReturned(i, ToolResult(call.id, r.value, FALSE))
          ELSE IF r.raised \in {"TypeError", "Exception"}
          THEN DispatchReturned(i, ToolResult(call.id, r.raised \o ": " \o r.value, TRUE))
          ELSE i = Len(trace) /\ agent_pc = "raised"

\* C31 witness: in one run an unknown tool was reported, and then a tool that
\* raised TypeError was reported with is_error
C31_Witness ==
  /\ llm_calls = 2
  /\ agent_pc = "loop"
  /\ \E i, j \in DOMAIN trace :
       /\ i < j
       /\ trace[i].kind = "dispatch" /\ trace[i].data = tc_2 /\ trace[i].step = 1
       /\ DispatchReturned(i, ToolResult("tc_2", "Unknown tool: no_such_tool", TRUE))
       /\ trace[j].kind = "dispatch" /\ trace[j].data = tc_4
       /\ DispatchReturned(j, ToolResult("tc_4", "TypeError: unexpected keyword argument", TRUE))

--------------------------------------------------------------------------
(* History, version and source of a path *)

\* the patch_module calls on p since the manager was built or cleaned up that
\* completed without error
Succeeded(p) == Get(calls, p, 0) - Get(failed, p, 0)

\* C32: the history of P has one record per patch_module call on P that
\* completed without error (since the manager was built or cleaned up), a
\* successful call appends the record with the version assigned to it and a
\* failed call appends nothing; the versions of a history are strictly
\* increasing and at most get_version(P); get_source(P) is the source of the
\* most recent successful patch, None when none has succeeded.
C32_HistoryOfSuccessfulPatches ==
  /\ [](\A p \in KnownPaths :
          LET h == get_history(_history, p)
          IN  /\ Len(h) = Succeeded(p)
              /\ \A i \in DOMAIN h : h[i].version <= get_version(_versions, p)
              /\ \A i, j \in DOMAIN h : i < j => h[i].version < h[j].version
              /\ get_source(_history, p) =
                   IF Succeeded(p) = 0 THEN << "None" >> ELSE << "src", h[Len(h)].source >>)
  /\ [][PatchStep =>
          LET P      == last'.path
              before == get_history(_history, P)
              after  == get_history(_history', P)
          IN  IF last'.err = ""
              THEN /\ after = Append(before, after[Len(after)])
                   /\ after[Len(after)].version = get_version(_versions, P) + 1
                   /\ after[Len(after)].version = get_version(_versions', P)
                   /\ get_source(_history', P) = << "src", last'.source >>
              ELSE /\ after = before
                   /\ get_source(_history', P) = get_source(_history, P)
                   /\ get_version(_versions', P) = get_version(_versions, P) + 1]_vars

\* C32 witness: P was patched with success, then a patch of P failed, then a
\* third patch succeeded: the history holds versions 1 and 3 and get_source is
\* the third source
C32_Witness ==
  /\ PatchedOk
  /\ get_version(_versions, last.path) = 3
  /\ Get(failed, last.path, 0) = 1
  /\ Len(get_history(_history, last.path)) = 2
  /\ _history[last.path][1].version = 1
  /\ _history[last.path][2].version = 3
  /\ get_source(_history, last.path) = << "src", last.source >>
  /\ _history[last.path][1].source # last.source

--------------------------------------------------------------------------
(* The two states of a patched path *)

\* P is VIRTUAL: its namespace is at the virtual file name and the cache holds
\* an entry for that name
IsVirtual(mods, cache, P) ==
  /\ P \in DOMAIN mods
  /\ mods[P].__file__ = "mutagent://" \o P
  /\ ("mutagent://" \o P) \in DOMAIN cache

\* P is PERSISTED: its namespace is at another place and the cache holds no
\* entry for the virtual file name
IsPersisted(mods, cache, P) ==
  /\ P \in DOMAIN mods
  /\ mods[P].__file__ \notin {"mutagent://" \o P, Absent}
  /\ ("mutagent://" \o P) \notin DOMAIN cache

\* the cache entry that holds source under filename
CacheEntry(filename, source) ==
  [size |-> Len(source), lines |-> [i \in DOMAIN source |-> [source[i] EXCEPT !.eol = TRUE]],
   fullname |-> filename]

\* C33: between operations every path patched and not yet cleaned up is
\* either VIRTUAL or PERSISTED and never both; every patch_module call on P,
\* failed or not, after a save or not, leaves P VIRTUAL with the cache entry
\* holding the source submitted; every successful save leaves P PERSISTED at
\* the path it wrote; no other call but cleanup changes the location or the
\* cache entry of P.
C33_VirtualOrPersisted ==
  /\ [](\A P \in _patched_modules :
          IsVirtual(sys_modules, linecache, P) # IsPersisted(sys_modules, linecache, P))
  /\ [][PatchStep =>
          /\ IsVirtual(sys_modules', linecache', last'.path)
          /\ linecache'["mutagent://" \o last'.path] =
               CacheEntry("mutagent://" \o last'.path, last'.source)]_vars
  /\ [][(SaveStep /\ last'.err = "") =>
          /\ last'.path \in _patched_modules
          /\ IsPersisted(sys_modules', linecache', last'.path)
          /\ sys_modules'[last'.path].__file__ = last'.ret
          /\ last'.ret \in DOMAIN files']_vars
  /\ [][last'.op # "cleanup" =>
          \A P \in _patched_modules :
            ~(last'.op \in {"patch_module", "save_module"} /\ last'.path = P /\ nops' # nops) =>
              /\ sys_modules'[P].__file__ = sys_modules[P].__file__
              /\ Get(linecache', "mutagent://" \o P, Absent) =
                   Get(linecache, "mutagent://" \o P, Absent)]_vars

\* C33 witness: P was patched, saved, and then a patch of P failed: P is
\* VIRTUAL again and the cache holds the source that failed
C33_Witness ==
  /\ PatchFailed
  /\ get_version(_versions, last.path) = 2
  /\ Len(get_history(_history, last.path)) = 1
  /\ files # EmptyDict
  /\ IsVirtual(sys_modules, linecache, last.path)
  /\ linecache["mutagent://" \o last.path].lines # << >>
  /\ linecache["mutagent://" \o last.path] = CacheEntry("mutagent://" \o last.path, last.source)

--------------------------------------------------------------------------
(* The source-lookup capability of a patched path *)

\* loader.get_filename(fullname) and loader.get_source(fullname) of a module
LoaderFilename(module) == module.__loader__._filename
LoaderSource(module) == module.__loader__._source

\* C34: between operations, for every patched path the location its loader
\* reports equals __file__ of its namespace, after a patch and after a save,
\* and the text its loader reports is the source of the most recent patch call.
C34_LoaderAgreesWithNamespace ==
  /\ [](\A P \in _patched_modules :
          LoaderFilename(sys_modules[P]) = sys_modules[P].__file__)
  /\ [][PatchStep => LoaderSource(sys_modules'[last'.path]) = last'.source]_vars
  /\ [][(nops' = nops + 1 /\ last'.op = "save_module") =>
          \A P \in _patched_modules :
            LoaderSource(sys_modules'[P]) = LoaderSource(sys_modules[P])]_vars

\* C35: after every successful save_module(P, D) the saved file holds the
\* source submitted in the most recent patch_module call on P, which is the
\* text P's loader reports and from which P's namespace was last populated,
\* also when that call failed in compile or exec.
C35_SavedFileIsLastSubmitted ==
  [][(SaveStep /\ last'.err = "") =>
       /\ last'.ret \in DOMAIN files'
       /\ files'[last'.ret] = LoaderSource(sys_modules'[last'.path])]_vars

--------------------------------------------------------------------------
(* cleanup and the class registries *)

\* C36: cleanup leaves the class registry, the class objects and the
\* registries of the capability runtime as they are; a patch of a path that is
\* not registered (as after cleanup) unregisters nothing: every implementation
\* the path contributed before is still registered and still runs; and a
\* declaration under a key the class registry holds returns the object
\* registered under it (the name is bound to it unless the source then imports
\* a class of that name from another module).
C36_CleanupKeepsClassRegistries ==
  /\ [][CleanupStep =>
          /\ _class_registry' = _class_registry
          /\ classes' = classes
          /\ Registries' = Registries]_vars
  /\ [][(PatchStep /\ last'.path \notin DOMAIN sys_modules) =>
          /\ \A id \in DOMAIN _method_registry :
               \A m \in DOMAIN _method_registry[id] :
                 _method_registry[id][m].__module__ = last'.path =>
                   /\ id \in DOMAIN _method_registry'
                   /\ m \in DOMAIN _method_registry'[id]
                   /\ _method_registry'[id][m] = _method_registry[id][m]
                   /\ Dispatch(classes', id, m) = _method_registry[id][m].tag
          /\ \A k \in DOMAIN _class_registry :
               (k[1] = last'.path /\ decls'[k].count > decls[k].count) =>
                 /\ _class_registry'[k] = _class_registry[k]
                 /\ (\A i \in DOMAIN last'.source :
                       last'.source[i].op = "impl" =>
                         last'.source[i].arg.module = last'.path) =>
                      sys_modules'[last'.path].syms[k[2]] = ClassRef(_class_registry[k])]_vars

\* C36 witness: module c declared K and attached v1 to K.run, cleanup ran, and
\* c was patched again with a declaration of K: the declaration merged into the
\* object of the first declaration and run still runs v1
C36_Witness ==
  /\ PatchedOk
  /\ last.path = "c"
  /\ last.source = SrcDecl
  /\ Get(calls, "c", 0) = 1
  /\ << "c", "K" >> \in DOMAIN decls
  /\ decls[<< "c", "K" >>].count = 2
  /\ _class_registry[<< "c", "K" >>] = decls[<< "c", "K" >>].first
  /\ sys_modules["c"].syms["K"] = ClassRef(decls[<< "c", "K" >>].first)
  /\ "run" \in DOMAIN Get(_method_registry, _class_registry[<< "c", "K" >>], EmptyDict)
  /\ _method_registry[_class_registry[<< "c", "K" >>]]["run"] = ImplVal("v1", "c")
  /\ Dispatch(classes, _class_registry[<< "c", "K" >>], "run") = "v1"

--------------------------------------------------------------------------
(* The namespace object of a registered path *)

\* C37: a patch_module call on a registered path fills the object that is
\* registered, which is still registered under the path afterwards, and
\* returns it when it returns; no call but cleanup replaces or removes the
\* object registered under a path, so a path has one namespace object as long
\* as it is registered and a reference taken before a patch is a reference to
\* the namespace that holds the new symbols.
C37_NamespaceObjectReused ==
  /\ [][(PatchStep /\ last'.path \in DOMAIN sys_modules) =>
          /\ sys_modules'[last'.path].oid = sys_modules[last'.path].oid
          /\ last'.err = "" => last'.ret = sys_modules[last'.path].oid]_vars
  /\ [][(PatchStep /\ last'.err = "") => last'.ret = sys_modules'[last'.path].oid]_vars
  /\ [][last'.op # "cleanup" =>
          \A P \in DOMAIN sys_modules :
            /\ P \in DOMAIN sys_modules'
            /\ sys_modules'[P].oid = sys_modules[P].oid]_vars

\* C37 witness: a.b was patched twice with different sources; the attribute b
\* its parent got at the first patch refers to the object that is registered
\* and was returned, which holds the symbols of the second source
C37_Witness ==
  /\ PatchedOk
  /\ last.path = "a.b"
  /\ Len(get_history(_history, "a.b")) = 2
  /\ _history["a.b"][1].source = SrcOne
  /\ last.source = SrcTwo
  /\ sys_modules["a"].syms["b"] = ModuleRef(sys_modules["a.b"].oid)
  /\ last.ret = sys_modules["a.b"].oid
  /\ \A n \in DOMAIN sys_modules["a.b"].syms : \E j \in DOMAIN SrcTwo : SrcTwo[j].name = n
  /\ sys_modules["a.b"].syms # EmptyDict

--------------------------------------------------------------------------
(* What an in-place merge leaves alone *)

\* issubclass(cls, base) for a base named in a class statement
IsSubclass(cls, id, base) ==
  \E j \in DOMAIN cls[id].__bases__ : cls[id].__bases__[j] = base

\* the name, qualified name, defining module and bases of a class object
Identity(cls, id) ==
  [__name__ |-> cls[id].__name__, __qualname__ |-> cls[id].__qualname__,
   __module__ |-> cls[id].__dict__["__module__"], __bases__ |-> cls[id].__bases__]

\* C38: a declaration under a registered key leaves name, qualified name,
\* defining module and base classes of the registered object as they were,
\* also when it lists other base classes; so do all other steps, hence the
\* subclass relations of the class and of the instances callers hold stay
\* those of the first declaration.
C38_MergeKeepsIdentityAndBases ==
  /\ [][\A k \in DOMAIN _class_registry : Redeclares(k) =>
          /\ Identity(classes', _class_registry[k]) = Identity(classes, _class_registry[k])
          /\ _class_registry'[k] = _class_registry[k]]_vars
  /\ [][\A id \in DOMAIN classes :
          /\ id \in DOMAIN classes'
          /\ Identity(classes', id) = Identity(classes, id)
          /\ \A base \in {"mutagent.Object", "Base", "Mixin"} :
               IsSubclass(classes', id, base) = IsSubclass(classes, id, base)]_vars
  /\ [][\A obj \in instances : obj \in instances']_vars

\* C38 witness: c.K was declared from mutagent.Object, a caller made an
\* instance, and K was declared again with the base Base and the added stub
\* stop: the registered object has the stub and still derives from
\* mutagent.Object only
C38_Witness ==
  /\ PatchedOk
  /\ last.path = "c"
  /\ last.source = SrcDeclBased
  /\ << "c", "K" >> \in DOMAIN decls
  /\ decls[<< "c", "K" >>].count = 2
  /\ LET id == _class_registry[<< "c", "K" >>]
     IN  /\ classes[id].__bases__ = << "mutagent.Object" >>
         /\ "stop" \in DOMAIN classes[id].__dict__
         /\ ~IsSubclass(classes, id, "Base")
         /\ \E obj \in instances : obj.__class__ = id /\ obj.born = 1

--------------------------------------------------------------------------
(* What a patch leaves alone *)

\* the parent path of a dotted path, "" for a top-level path
ParentPath(parts) == IF Len(parts) > 1 THEN Dotted(ParentOf(parts)) ELSE ""

\* C39: a patch_module call on P leaves version, history and cache entry of
\* every other path Q as they were; a namespace registered under another path
\* stays registered with the same attributes and symbols, but that on success
\* P's direct parent has the attribute for P set to P's namespace; the only
\* paths the call registers are P and P's missing ancestors, which start as
\* packages without symbols.
C39_PatchLeavesOtherPathsAlone ==
  [][PatchStep =>
       \A parts \in AllPaths : Dotted(parts) = last'.path =>
         LET P == last'.path IN
         /\ \A Q \in (KnownPaths \cup DOMAIN sys_modules') \ {P} :
              /\ get_version(_versions', Q) = get_version(_versions, Q)
              /\ get_history(_history', Q) = get_history(_history, Q)
              /\ Get(linecache', "mutagent://" \o Q, Absent) =
                   Get(linecache, "mutagent://" \o Q, Absent)
         /\ \A Q \in DOMAIN sys_modules \ {P} :
              /\ Q \in DOMAIN sys_modules'
              /\ IF Q = ParentPath(parts) /\ last'.err = ""
                 THEN sys_modules'[Q] =
                        [sys_modules[Q] EXCEPT
                           !.syms = Put(@, LastOf(parts), ModuleRef(sys_modules'[P].oid))]
                 ELSE sys_modules'[Q] = sys_modules[Q]
         /\ \A Q \in (DOMAIN sys_modules' \ DOMAIN sys_modules) \ {P} :
              /\ Q \in ProperPrefixes(parts)
              /\ sys_modules'[Q].__file__ = Absent
              /\ sys_modules'[Q].syms =
                   IF Q = ParentPath(parts) /\ last'.err = ""
                   THEN Put(EmptyDict, LastOf(parts), ModuleRef(sys_modules'[P].oid))
                   ELSE EmptyDict]_vars

\* C39 witness: a was registered before the manager was built, c was patched
\* and saved, and then a.b was patched: a has the attribute b beside its own
\* symbol, c is as the save left it
C39_Witness ==
  /\ PatchedOk
  /\ last.path = "a.b"
  /\ "a" \in DOMAIN sys_modules0
  /\ DOMAIN sys_modules["a"].syms = {"orig", "b"}
  /\ sys_modules["a"].syms["b"] = ModuleRef(sys_modules["a.b"].oid)
  /\ sys_modules["a"].__file__ = "site/a/__init__.py"
  /\ "c" \in DOMAIN sys_modules
  /\ sys_modules["c"].__file__ \in DOMAIN files
  /\ get_version(_versions, "c") = 1
  /\ ("mutagent://c") \notin DOMAIN linecache

====
